---- MODULE Spec2Model ----
(***************************************************************************)
(* A model of the Gherkin converter (src/gherkinConverter.py and its AI    *)
(* variant src/gherkinConverter_IA.py): the text rules, the action         *)
(* summary, the scenario synthesis of _process_steps, the feature          *)
(* rendering, the filename normalisation and the batch loop of convert().  *)
(*                                                                         *)
(* Texts are strings; a character is a string of length 1.  The character  *)
(* classes below are those of Python's re module on str patterns           *)
(* (Unicode \w, \d, \s), restricted to the characters the model's inputs   *)
(* use; every other character counts as punctuation (\W, not \s).          *)
(***************************************************************************)
EXTENDS Integers, Sequences, FiniteSets, TLC

\* ------------------------------------------------------------------------
\* Characters
\* ------------------------------------------------------------------------
LowerAscii == "abcdefghijklmnopqrstuvwxyz"
UpperAscii == "ABCDEFGHIJKLMNOPQRSTUVWXYZ"
LowerAccent == "áéíóúñ"
UpperAccent == "ÁÉÍÓÚÑ"
\* NFKD base letter of each accented letter, position by position.
LowerAccentBase == "aeioun"
UpperAccentBase == "AEIOUN"
DigitChars == "0123456789"

\* F(v) with v evaluated once: the bound variable of a set constructor
\* holds a value, where an operator argument is evaluated at each use
Bind(v, F(_)) == CHOOSE r \in {F(x) : x \in {v}} : TRUE

Min(a, b) == IF a < b THEN a ELSE b
Max(a, b) == IF a > b THEN a ELSE b

CharAt(s, i) == SubSeq(s, i, i)
CharsOf(s) == {CharAt(s, i) : i \in 1..Len(s)}
IndexIn(s, c) == IF c \in CharsOf(s)
                 THEN CHOOSE i \in 1..Len(s) : CharAt(s, i) = c
                 ELSE 0

LowerSet == CharsOf(LowerAscii) \cup CharsOf(LowerAccent)
UpperSet == CharsOf(UpperAscii) \cup CharsOf(UpperAccent)
DigitSet == CharsOf(DigitChars)
\* \w : letters, digits and the underscore
WordSet == LowerSet \cup UpperSet \cup DigitSet \cup {"_"}
\* \s
SpaceSet == {" ", "\n", "\t", "\r"}
\* The ranges á-ú and Á-Ú (U+00E1..U+00FA, U+00C1..U+00DA) also hold the
\* two signs U+00F7 and U+00D7, which are not word characters.
AccentRangeSet == CharsOf(LowerAccent) \cup CharsOf(UpperAccent) \cup {"÷", "×"}

IsLower(c) == c \in LowerSet
IsUpper(c) == c \in UpperSet
IsLetter(c) == c \in LowerSet \/ c \in UpperSet
IsDigit(c) == c \in DigitSet
IsWord(c) == c \in WordSet
IsSpace(c) == c \in SpaceSet
InAccentRange(c) == c \in AccentRangeSet

LowerOf == [c \in UpperSet |->
              IF c \in CharsOf(UpperAscii) THEN CharAt(LowerAscii, IndexIn(UpperAscii, c))
              ELSE CharAt(LowerAccent, IndexIn(UpperAccent, c))]
UpperOf == [c \in LowerSet |->
              IF c \in CharsOf(LowerAscii) THEN CharAt(UpperAscii, IndexIn(LowerAscii, c))
              ELSE CharAt(UpperAccent, IndexIn(LowerAccent, c))]

ToLower(c) == IF c \in UpperSet THEN LowerOf[c] ELSE c
ToUpper(c) == IF c \in LowerSet THEN UpperOf[c] ELSE c

\* ------------------------------------------------------------------------
\* String helpers (str methods and the regular-expression forms the code uses)
\* ------------------------------------------------------------------------
\* Prefix cutting one character late
PrefixOffByOne(s, n) == SubSeq(s, 1, Min(Len(s), n + 1))

\* s[:n]
Prefix(s, n) == SubSeq(s, 1, Min(Len(s), n))

\* piece(1) + piece(2) + ... + piece(n), by halving
JoinPieces(n, piece(_)) ==
  LET RECURSIVE Join(_, _)
      Join(lo, hi) ==
        IF lo > hi THEN ""
        ELSE IF lo = hi THEN piece(lo)
        ELSE LET mid == (lo + hi) \div 2
             IN Join(lo, mid) \o Join(mid + 1, hi)
  IN Join(1, n)

\* str.lower(), as re.IGNORECASE compares
LowerStr(s) == JoinPieces(Len(s), LAMBDA i : ToLower(CharAt(s, i)))

\* c * n
Rep(c, n) == JoinPieces(n, LAMBDA i : c)

\* re.sub('[^...]', '', s): keep the characters satisfying Keep
KeepChars(s, Keep(_)) ==
  JoinPieces(Len(s), LAMBDA i : IF Keep(CharAt(s, i)) THEN CharAt(s, i) ELSE "")

\* str.strip(chars) for the characters satisfying Drop
StripChars(s, Drop(_)) ==
  LET keep == {i \in 1..Len(s) : ~Drop(CharAt(s, i))}
  IN IF keep = {} THEN ""
     ELSE SubSeq(s, CHOOSE i \in keep : \A j \in keep : i <= j,
                    CHOOSE i \in keep : \A j \in keep : i >= j)

\* re.sub('[...]+', rep, s): every maximal run of characters satisfying In
\* becomes one rep
SubRuns(s, In(_), rep) ==
  JoinPieces(Len(s), LAMBDA i :
    IF ~In(CharAt(s, i)) THEN CharAt(s, i)
    ELSE IF i > 1 /\ In(CharAt(s, i - 1)) THEN ""
    ELSE rep)

\* the start positions of the occurrences of sub in s
Occurrences(s, sub) ==
  {i \in 1..(Len(s) - Len(sub) + 1) : SubSeq(s, i, i + Len(sub) - 1) = sub}

\* re.search(kw, s, re.IGNORECASE) for a literal kw in lower case
ContainsNoCase(s, kw) ==
  \E i \in 1..(Len(s) - Len(kw) + 1) :
     \A j \in 1..Len(kw) : ToLower(CharAt(s, i + j - 1)) = CharAt(kw, j)

\* re.search('k1|k2|...', s, re.IGNORECASE)
SearchAny(s, kws) == \E k \in 1..Len(kws) : ContainsNoCase(s, kws[k])

\* ------------------------------------------------------------------------
\* TextNormalizer
\* ------------------------------------------------------------------------
CleanKeep(c) == IsWord(c) \/ InAccentRange(c) \/ c \in {" ", "\n", "-"}

\* re.sub(r'[^\wá-úÁ-Ú \n\-]', '', text, flags=re.IGNORECASE).strip()
clean_text(text) == StripChars(KeepChars(text, CleanKeep), IsSpace)

\* re.match(r'^[\d\W]+$', text): every character is a digit or a non-word
OnlyDigitsNonWord(text) ==
  /\ Len(text) > 0
  /\ \A i \in 1..Len(text) : IsDigit(CharAt(text, i)) \/ ~IsWord(CharAt(text, i))

\* len(text) > 2 and not re.match(r'^[\d\W]+$', text)
is_valid_step(text) == Len(text) > 2 /\ ~OnlyDigitsNonWord(text)

\* ------------------------------------------------------------------------
\* ActionSummarizer
\* ------------------------------------------------------------------------
\* action_map, in insertion order: the alternatives of each pattern and
\* the phrase it maps to
ActionMap == <<
  [pattern |-> <<"clic", "seleccionar", "presionar">>, action |-> "Interactuar con elemento"],
  [pattern |-> <<"capturar", "ingresar">>, action |-> "Capturar datos requeridos"],
  [pattern |-> <<"validar", "verificar">>, action |-> "Validar información del sistema"],
  [pattern |-> <<"habilitar", "desplegar">>, action |-> "Habilitar sección del formulario"] >>

InSeq(e, seq) == \E i \in 1..Len(seq) : seq[i] = e

\* AddStep without the test `action not in unique_actions`
AddStepNoDedupe(unique_actions, step) ==
  LET hits == {k \in 1..Len(ActionMap) : SearchAny(step, ActionMap[k].pattern)}
  IN IF hits = {} THEN unique_actions
     ELSE Append(unique_actions, ActionMap[CHOOSE k \in hits : \A j \in hits : k <= j].action)

\* One pass of the inner loop: the patterns are tried in order and the
\* first one that matches the step AND whose phrase is not yet collected
\* appends its phrase and ends the pass (break).
AddStep(unique_actions, step) ==
  LET hits == {k \in 1..Len(ActionMap) :
                 /\ SearchAny(step, ActionMap[k].pattern)
                 /\ ~InSeq(ActionMap[k].action, unique_actions)}
  IN IF hits = {} THEN unique_actions
     ELSE Append(unique_actions, ActionMap[CHOOSE k \in hits : \A j \in hits : k <= j].action)

\* unique_actions after the outer loop over the steps
CollectActions(steps) ==
  LET f[i \in 0..Len(steps)] == IF i = 0 THEN <<>> ELSE AddStep(f[i - 1], steps[i])
  IN f[Len(steps)]

MaxActions == 3

\* _create_action_summary without the slice [:3]
create_action_summary_unsliced(steps) == CollectActions(steps)

\* _create_action_summary: unique_actions[:3]
create_action_summary(steps) ==
  LET unique_actions == CollectActions(steps)
  IN SubSeq(unique_actions, 1, Min(Len(unique_actions), MaxActions))

\* ------------------------------------------------------------------------
\* Parsed JSON values
\* ------------------------------------------------------------------------
\* A value json.load can return, as far as the code tells values apart:
\* a string, a number, null, or a list of n elements (standing for any
\* container without .get and without string methods).  JMissing marks a
\* key the mapping does not have.
JStr(s) == [t |-> "str", s |-> s, n |-> 0]
JNum(n) == [t |-> "num", s |-> "", n |-> n]
JList(n) == [t |-> "list", s |-> "", n |-> n]
JNull == [t |-> "null", s |-> "", n |-> 0]
JMissing == [t |-> "missing", s |-> "", n |-> 0]

\* A step entry: a mapping with the fields paso, validacion and key (each
\* possibly missing), or a value that is not a mapping (t # "dict").
StepDict(paso, validacion, key) ==
  [t |-> "dict", paso |-> paso, validacion |-> validacion, key |-> key]
NonDictEntry(t) ==
  [t |-> t, paso |-> JMissing, validacion |-> JMissing, key |-> JMissing]

\* CasoPrueba: a mapping, as its items in insertion order, or another value
StepMap(items) == [t |-> "dict", items |-> items]
NonDictSteps(t) == [t |-> t, items |-> <<>>]

\* bool(v)
Truthy(v) == CASE v.t = "str" -> v.s # ""
               [] v.t = "num" -> v.n # 0
               [] v.t = "list" -> v.n > 0
               [] OTHER -> FALSE

\* d.get(field): None for a missing key
Get(v) == IF v.t = "missing" THEN JNull ELSE v
\* d.get(field, ''): '' for a missing key
GetOrEmpty(v) == IF v.t = "missing" THEN JStr("") ELSE v

\* _is_valid_step(v) raises TypeError: len() of None or of a number, or
\* re.match on a list once len(v) > 2 lets the second operand be evaluated
ValidRaises(v) == v.t \in {"null", "num"} \/ (v.t = "list" /\ v.n > 2)
\* _is_valid_step(v) where it does not raise
ValidValue(v) == v.t = "str" /\ is_valid_step(v.s)

\* ------------------------------------------------------------------------
\* int(k) of a mapping key
\* ------------------------------------------------------------------------
IntBody(k) ==
  LET t == StripChars(k, IsSpace)
  IN IF Len(t) > 0 /\ CharAt(t, 1) \in {"+", "-"} THEN SubSeq(t, 2, Len(t)) ELSE t

\* int(k) succeeds: optional blanks and sign, then digits, single
\* underscores allowed between digits
IsIntLiteral(k) ==
  LET d == IntBody(k)
  IN /\ Len(d) > 0
     /\ IsDigit(CharAt(d, 1)) /\ IsDigit(CharAt(d, Len(d)))
     /\ \A i \in 1..Len(d) : IsDigit(CharAt(d, i)) \/ CharAt(d, i) = "_"
     /\ \A i \in 1..(Len(d) - 1) : ~(CharAt(d, i) = "_" /\ CharAt(d, i + 1) = "_")

IntValue(k) ==
  LET d == IntBody(k)
      t == StripChars(k, IsSpace)
      f[i \in 0..Len(d)] ==
        IF i = 0 THEN 0
        ELSE IF CharAt(d, i) = "_" THEN f[i - 1]
        ELSE 10 * f[i - 1] + (IndexIn(DigitChars, CharAt(d, i)) - 1)
  IN IF Len(t) > 0 /\ CharAt(t, 1) = "-" THEN 0 - f[Len(d)] ELSE f[Len(d)]

\* ------------------------------------------------------------------------
\* sorted(..., key=lambda x: x['key'])
\* ------------------------------------------------------------------------
\* The characters of the model in code point order
CodeOrder == "\t\n\r #+-.0123456789?ABCDEFGHIJKLMNOPQRSTUVWXYZ_abcdefghijklmnopqrstuvwxyzÁÉÍÑÓ×Úáéíñó÷ú"
CodeOf(c) == IndexIn(CodeOrder, c)

\* a < b on str: by the first differing character, else by length
StrLess(a, b) ==
  LET m == Min(Len(a), Len(b))
      diff == {i \in 1..m : CharAt(a, i) # CharAt(b, i)}
  IN IF diff = {} THEN Len(a) < Len(b)
     ELSE LET i == CHOOSE d \in diff : \A e \in diff : d <= e
          IN CodeOf(CharAt(a, i)) < CodeOf(CharAt(b, i))

\* x['key'] of {'key': int(k), **v}: a 'key' field of the entry replaces int(k)
SortKey(item) ==
  IF item[2].key.t # "missing" THEN item[2].key ELSE JNum(IntValue(item[1]))

KeyLess(a, b) == IF a.t = "num" THEN a.n < b.n ELSE StrLess(a.s, b.s)

\* No comparison of the sort raises TypeError: at most one element, or
\* all keys numbers, or all keys strings (None, and a number against a
\* string, do not compare).
Comparable(items) ==
  \/ Len(items) <= 1
  \/ \A i \in 1..Len(items) : SortKey(items[i]).t = "num"
  \/ \A i \in 1..Len(items) : SortKey(items[i]).t = "str"

\* The try block succeeds: every int(k) parses, every entry unpacks as a
\* mapping (**v) and the keys compare.
SortSucceeds(items) ==
  /\ \A i \in 1..Len(items) : IsIntLiteral(items[i][1]) /\ items[i][2].t = "dict"
  /\ Comparable(items)

\* sorted() is stable: an element moves behind those with a smaller key
\* and those with an equal key that precede it
SortedByKey(items) ==
  LET n == Len(items)
      before(j, i) == \/ KeyLess(SortKey(items[j]), SortKey(items[i]))
                      \/ (~KeyLess(SortKey(items[i]), SortKey(items[j])) /\ j < i)
      pos(i) == 1 + Cardinality({j \in 1..n : j # i /\ before(j, i)})
  IN [p \in 1..n |-> items[CHOOSE i \in 1..n : pos(i) = p][2]]

\* list(raw_steps.values())
ValuesOf(items) == [i \in 1..Len(items) |-> items[i][2]]

\* sorted_steps of _process_steps (raw_steps a mapping)
sorted_steps(items) ==
  IF SortSucceeds(items) THEN SortedByKey(items) ELSE ValuesOf(items)

\* ------------------------------------------------------------------------
\* ScenarioSynthesizer: _process_steps
\* ------------------------------------------------------------------------
GivenLimit == 120
WhenLimit == 100
ThenLimit == 150
AndLimit == 100

GivenLeadIn == "Iniciar proceso: "
DefaultGiven == "Iniciar flujo"
EmptyWhen == "Ejecutar proceso"
DefaultWhen == "Ejecutar secuencia de pasos"
DefaultThen == "Proceso finalizado exitosamente"

\* What _process_steps does: it returns a structure or raises
Structure(given, when, and, then) ==
  [raised |-> FALSE, Given |-> given, When |-> when, And |-> and, Then |-> then]
Raised == [raised |-> TRUE, Given |-> "", When |-> "", And |-> <<>>, Then |-> ""]

\* the first index of seq that satisfies P, 0 when there is none
FirstIndex(seq, P(_)) ==
  LET hits == {i \in 1..Len(seq) : P(seq[i])}
  IN IF hits = {} THEN 0 ELSE CHOOSE i \in hits : \A j \in hits : i <= j
LastIndex(seq, P(_)) ==
  LET hits == {i \in 1..Len(seq) : P(seq[i])}
  IN IF hits = {} THEN 0 ELSE CHOOSE i \in hits : \A j \in hits : i >= j

\* next((lead-in + clean(s['paso']) for s in sorted_steps if s.get('paso')),
\*      default): the scan ends at the first entry without .get (it raises)
\* or with a truthy paso (cleaned; re.sub raises on a non-string)
GivenStops(s) == s.t # "dict" \/ Truthy(Get(s.paso))
GivenRaises(steps) ==
  LET i == FirstIndex(steps, GivenStops)
  IN i # 0 /\ (steps[i].t # "dict" \/ steps[i].paso.t # "str")
GivenOf(steps) ==
  LET i == FirstIndex(steps, GivenStops)
  IN IF i = 0 THEN DefaultGiven ELSE GivenLeadIn \o clean_text(steps[i].paso.s)

\* sorted_steps[1:], the last entry taken along
MiddleWithLast(steps) == SubSeq(steps, 2, Len(steps))

\* sorted_steps[1:-1]
Middle(steps) == SubSeq(steps, 2, Len(steps) - 1)

\* [clean(s['paso']) for s in sorted_steps[1:-1]
\*  if s.get('paso') and _is_valid_step(s['paso'])]
IntermediateRaises(steps) ==
  \E i \in 1..Len(Middle(steps)) :
     LET s == Middle(steps)[i]
     IN s.t # "dict" \/ (Truthy(Get(s.paso)) /\ ValidRaises(s.paso))
IntermediateKept(s) == Truthy(Get(s.paso)) /\ ValidValue(s.paso)
IntermediateOf(steps) ==
  LET m == Middle(steps)
      f[i \in 0..Len(m)] ==
        IF i = 0 THEN <<>>
        ELSE IF IntermediateKept(m[i]) THEN Append(f[i - 1], clean_text(m[i].paso.s))
        ELSE f[i - 1]
  IN f[Len(m)]

\* _create_action_summary(intermediate) or ['Ejecutar secuencia de pasos']
WhenActions(steps) ==
  LET summary == create_action_summary(IntermediateOf(steps))
  IN IF summary = <<>> THEN <<DefaultWhen>> ELSE summary

\* next((clean(s.get('validacion', '')) for s in reversed(sorted_steps)
\*       if _is_valid_step(s.get('validacion', ''))), default): the scan
\* ends at the last entry that raises or whose validacion is valid
ThenStops(s) ==
  s.t # "dict" \/ ValidRaises(GetOrEmpty(s.validacion)) \/ ValidValue(GetOrEmpty(s.validacion))
ThenRaises(steps) ==
  LET i == LastIndex(steps, ThenStops)
  IN i # 0 /\ (steps[i].t # "dict" \/ ValidRaises(GetOrEmpty(steps[i].validacion)))
\* the scan without reversed(): the first valid validation text
ThenOfForward(steps) ==
  LET i == FirstIndex(steps, ThenStops)
  IN IF i = 0 THEN DefaultThen ELSE clean_text(steps[i].validacion.s)

ThenOf(steps) ==
  LET i == LastIndex(steps, ThenStops)
  IN IF i = 0 THEN DefaultThen ELSE clean_text(steps[i].validacion.s)

\* The structure built from a non-empty sorted_steps, with the slices of
\* the return statement
Returned(given, when_actions, last_validation) ==
  Structure(Prefix(given, GivenLimit),
            Prefix(when_actions[1], WhenLimit),
            [i \in 1..(Len(when_actions) - 1) |-> Prefix(when_actions[i + 1], AndLimit)],
            Prefix(last_validation, ThenLimit))

Synthesize(steps) ==
  IF GivenRaises(steps) \/ IntermediateRaises(steps) \/ ThenRaises(steps) THEN Raised
  ELSE Bind(WhenActions(steps),
            LAMBDA when_actions : Returned(GivenOf(steps), when_actions, ThenOf(steps)))

EmptyStructure == Structure(DefaultGiven, EmptyWhen, <<>>, DefaultThen)

\* _process_steps(raw_steps).  A raw_steps that is no mapping has neither
\* .items() (caught by the bare except) nor .values() (raised from the
\* except block).
\* process_sorted without the early return for an empty sorted_steps
process_sorted_no_edge_case(steps) == Synthesize(steps)

process_sorted(steps) == IF steps = <<>> THEN EmptyStructure ELSE Synthesize(steps)
process_steps(raw_steps) ==
  IF raw_steps.t # "dict" THEN Raised
  ELSE Bind(sorted_steps(raw_steps.items), process_sorted)

\* ------------------------------------------------------------------------
\* FeatureRenderer: _format_step and _generate_feature
\* ------------------------------------------------------------------------
WrapWidth == 150
ScenarioLimit == 70

\* textwrap's word_punct class [\w!"'&.,?]
IsWordPunct(c) == IsWord(c) \/ c \in {"!", "\"", "'", "&", ".", ",", "?"}

\* str.expandtabs(): the column before character i, counted from the last
\* line break, a tab moving to the next multiple of 8
RECURSIVE ColumnBefore(_, _)
ColumnBefore(text, i) ==
  LET marks == {p \in 1..(i - 1) : CharAt(text, p) \in {"\t", "\n", "\r"}}
      p == CHOOSE m \in marks : \A q \in marks : m >= q
  IN IF marks = {} THEN i - 1
     ELSE IF CharAt(text, p) = "\t"
          THEN LET c == ColumnBefore(text, p) IN (c + 8 - (c % 8)) + (i - 1 - p)
     ELSE i - 1 - p

\* the text handed on with its tabs and line breaks
MungeSkipped(text) == text

\* TextWrapper._munge_whitespace: tabs expanded, then every whitespace
\* character becomes a space
Munge(text) ==
  JoinPieces(Len(text), LAMBDA i :
    IF CharAt(text, i) = "\t" THEN Rep(" ", 8 - (ColumnBefore(text, i) % 8))
    ELSE IF IsSpace(CharAt(text, i)) THEN " "
    ELSE CharAt(text, i))

\* TextWrapper._split with break_on_hyphens: a chunk ends after position i
\* at the edge of a run of whitespace, after the hyphen of a hyphenated
\* word (two letters, or letter-hyphen-letter, before the hyphen; a
\* letter, an optional hyphen and a letter after it) and around a run of
\* two or more hyphens that follows a word character and precedes one.
ChunkEnds(s) ==
  LET n == Len(s)
      ch(i) == IF i >= 1 /\ i <= n THEN CharAt(s, i) ELSE ""
      sp(i) == ch(i) = " "
      lt(i) == IsWord(ch(i)) /\ ~IsDigit(ch(i))
      \* the run of hyphens holding position i, as <<first, last>>
      runFirst(i) == CHOOSE a \in 1..i : (\A k \in a..i : ch(k) = "-") /\ ch(a - 1) # "-"
      runLast(i) == CHOOSE b \in i..n : (\A k \in i..b : ch(k) = "-") /\ ch(b + 1) # "-"
      dash(a, b) == b - a >= 1 /\ IsWordPunct(ch(a - 1)) /\ IsWord(ch(b + 1))
      hyphen(i) == /\ ch(i) = "-"
                   /\ \/ lt(i - 2) /\ lt(i - 1)
                      \/ lt(i - 3) /\ ch(i - 2) = "-" /\ lt(i - 1)
                   /\ lt(i + 1)
                   /\ \/ lt(i + 2)
                      \/ ch(i + 2) = "-" /\ lt(i + 3)
  IN {i \in 1..n :
        \/ i = n
        \/ sp(i) # sp(i + 1)
        \/ hyphen(i)
        \/ ch(i) = "-" /\ ch(i + 1) # "-" /\ dash(runFirst(i), i)
        \/ ch(i) # "-" /\ ch(i + 1) = "-" /\ dash(i + 1, runLast(i + 1))}

SetMax(S) == CHOOSE e \in S : \A d \in S : e >= d
SetMin(S) == CHOOSE e \in S : \A d \in S : e <= d

\* One line of TextWrapper._wrap_chunks, on the munged text s with the
\* chunk ends `ends`, p characters consumed: <<line, consumed>>, the
\* line "" when it holds nothing.  A chunk is the text between two
\* consecutive chunk ends; it is blank when its last character is a
\* space.  A blank chunk is dropped at the start of a line (but the
\* first) and at its end; the line is filled up to WrapWidth, and a
\* chunk wider than that is taken whole when the line is empty.
LineFrom(s, ends, start) ==
  LET fit == {e \in ends : e > start /\ e - start <= WrapWidth}
      last == IF fit # {} THEN SetMax(fit) ELSE SetMin({e \in ends : e > start})
      kept == {e \in ends : e > start /\ e <= last /\ CharAt(s, e) # " "}
            \cup {e \in ends : e > start /\ e < last}
  IN <<IF kept = {} THEN "" ELSE SubSeq(s, start + 1, SetMax(kept)), last>>

WrapLine(s, ends, p, first) ==
  LET head == SetMin({e \in ends : e > p})
  IN IF ~first /\ CharAt(s, head) = " "
     THEN IF head >= Len(s) THEN <<"", head>> ELSE LineFrom(s, ends, head)
     ELSE LineFrom(s, ends, p)

\* TextWrapper._wrap_chunks with break_long_words=False and
\* drop_whitespace=True: the lines of the munged text s
RECURSIVE WrapFrom(_, _, _, _)
WrapFrom(s, ends, p, first) ==
  IF p >= Len(s) THEN <<>>
  ELSE Bind(WrapLine(s, ends, p, first),
            LAMBDA l : IF l[1] = "" THEN WrapFrom(s, ends, l[2], first)
                       ELSE <<l[1]>> \o WrapFrom(s, ends, l[2], FALSE))

WrapChunks(s) == Bind(ChunkEnds(s), LAMBDA ends : WrapFrom(s, ends, 0, TRUE))

\* textwrap.wrap(text, width=150, break_long_words=False)
Wrap(text) == Bind(Munge(text), WrapChunks)

Continuation == "\n      "

\* '\n      '.join(textwrap.wrap(...))
JoinWrapped(lines) ==
  JoinPieces(Len(lines), LAMBDA i : IF i = 1 THEN lines[i] ELSE Continuation \o lines[i])
format_step(text) == Bind(Wrap(text), JoinWrapped)

\* s.split(sep)[0] in place of s.split(sep)[-1]
FirstSegment(s, sep) ==
  LET at == Occurrences(s, sep)
  IN IF at = {} THEN s ELSE SubSeq(s, 1, (CHOOSE i \in at : \A j \in at : i <= j) - 1)

\* s.split(sep)[-1] for a one-character sep
LastSegment(s, sep) ==
  LET at == Occurrences(s, sep)
  IN IF at = {} THEN s
     ELSE SubSeq(s, (CHOOSE i \in at : \A j \in at : i >= j) + 1, Len(s))

\* the name left in the case it came in
TitleSkipped(s) == s

\* str.title(): a cased letter is upper case after an uncased character
\* (or at the start) and lower case after a cased one
Title(s) ==
  JoinPieces(Len(s), LAMBDA i :
    IF ~IsLetter(CharAt(s, i)) THEN CharAt(s, i)
    ELSE IF i > 1 /\ IsLetter(CharAt(s, i - 1)) THEN ToLower(CharAt(s, i))
    ELSE ToUpper(CharAt(s, i)))

NotWord(c) == ~IsWord(c)
NotWordOrUnderscore(c) == ~IsWord(c) \/ c = "_"
IsUnderscore(c) == c = "_"

\* re.sub(r'\W+', '_', module.split('-')[-1]).strip('_')
clean_module(module) ==
  StripChars(SubRuns(LastSegment(module, "-"), NotWord, "_"), IsUnderscore)

\* re.sub(r'[\W_]+', ' ', title.split('_')[-1]).title()[:70]
scenario_name(title) ==
  Prefix(Title(SubRuns(LastSegment(title, "_"), NotWordOrUnderscore, " ")), ScenarioLimit)

\* the lines of feature_lines; the first one carries its own line break
feature_lines(module, title, steps) ==
  << "Feature: " \o clean_module(module) \o "\n",
     "  Scenario: " \o scenario_name(title),
     "    Given " \o format_step(steps.Given),
     "    When " \o format_step(steps.When) >>
  \o [i \in 1..Len(steps.And) |-> "    And " \o format_step(steps.And[i])]
  \o << "    Then " \o format_step(steps.Then) >>

\* '\n'.join(lines)
JoinLines(lines) ==
  JoinPieces(Len(lines), LAMBDA i : IF i = 1 THEN lines[i] ELSE "\n" \o lines[i])

Rendered(text) == [raised |-> FALSE, text |-> text]
RenderRaised == [raised |-> TRUE, text |-> ""]

\* _generate_feature(module, title, steps) on the values convert() passes:
\* .split raises AttributeError unless module and title are strings
generate_feature(module, title, steps) ==
  IF module.t # "str" \/ title.t # "str" THEN RenderRaised
  ELSE Rendered(Bind(feature_lines(module.s, title.s, steps), JoinLines))

\* ------------------------------------------------------------------------
\* FilenameNormalizer: _normalize_filename
\* ------------------------------------------------------------------------
SourceExt == ".json"
FeatureExt == ".feature"

\* The ASCII characters of the model
AsciiChars == "\t\n\r !\"#&'+,-.0123456789?ABCDEFGHIJKLMNOPQRSTUVWXYZ_abcdefghijklmnopqrstuvwxyz"

\* the extension left in place
KeepSourceExt(filename) == filename

\* filename.rsplit('.json', 1)[0]: what precedes the last '.json'
StripSourceExt(filename) ==
  LET at == Occurrences(filename, SourceExt)
  IN IF at = {} THEN filename
     ELSE SubSeq(filename, 1, (CHOOSE i \in at : \A j \in at : i >= j) - 1)

\* the name taken as it is, without the NFKD fold to ASCII
FoldAsciiSkipped(name) == name

\* unicodedata.normalize('NFKD', c).encode('ASCII', 'ignore'): an ASCII
\* character stays, an accented letter leaves its base letter, any other
\* character disappears
FoldChar(c) ==
  IF c \in CharsOf(AsciiChars) THEN c
  ELSE IF c \in CharsOf(LowerAccent) THEN CharAt(LowerAccentBase, IndexIn(LowerAccent, c))
  ELSE IF c \in CharsOf(UpperAccent) THEN CharAt(UpperAccentBase, IndexIn(UpperAccent, c))
  ELSE ""
FoldAscii(name) == JoinPieces(Len(name), LAMBDA i : FoldChar(CharAt(name, i)))

NameKeep(c) == IsWord(c) \/ IsSpace(c) \/ c = "-"
SpaceOrHyphen(c) == IsSpace(c) \/ c = "-"
DotOrUnderscore(c) == c \in {".", "_"}

normalize_filename(filename) ==
  LET name == StripSourceExt(filename)
      ascii_name == FoldAscii(name)
      cleaned == KeepChars(ascii_name, NameKeep)
      underscored == SubRuns(cleaned, SpaceOrHyphen, "_")
      final_name == StripChars(SubRuns(underscored, DotOrUnderscore, "_"), IsUnderscore)
  IN final_name \o FeatureExt

\* ------------------------------------------------------------------------
\* The AI variant's classifier: _ai_classify_step
\* ------------------------------------------------------------------------
\* candidate_labels handed to the zero-shot pipeline
CandidateLabels == <<"Given", "When", "Then", "And">>

\* result['sequence'] (the classified text) in place of result['labels'][0]
ai_classify_sequence(text) == {text}

\* result['labels'][0]: the pipeline ranks the candidate labels by a score
\* the code does not control; the top one can be any of them
ai_classify_step(text) == {CandidateLabels[i] : i \in 1..Len(CandidateLabels)}

\* ------------------------------------------------------------------------
\* UltimateGherkinConverterAI._process_steps
\* ------------------------------------------------------------------------
\* f"{v}" of a field value (a string, or None)
FormatValue(v) == CASE v.t = "str" -> v.s
                    [] v.t = "null" -> "None"

\* raw_text = f"{step.get('paso', '')} {step.get('validacion', '')}"
ai_raw_text(step) ==
  FormatValue(GetOrEmpty(step.paso)) \o " " \o FormatValue(GetOrEmpty(step.validacion))

\* [t for c, t in ai_classified if c == label]: labels[i] is what the
\* classifier answered for the i-th entry of sorted_steps
Candidates(steps, labels, label) ==
  LET hits == SelectSeq([i \in 1..Len(steps) |-> i], LAMBDA i : labels[i] = label)
  IN [k \in 1..Len(hits) |-> ai_raw_text(steps[hits[k]])]

\* [clean(s['paso']) for s in sorted_steps[1:-1] if s.get('paso')]
AiIntermediateRaises(steps) ==
  \E i \in 1..Len(Middle(steps)) :
     Truthy(Get(Middle(steps)[i].paso)) /\ Middle(steps)[i].paso.t # "str"
AiIntermediateOf(steps) ==
  LET m == SelectSeq(Middle(steps), LAMBDA s : Truthy(Get(s.paso)))
  IN [i \in 1..Len(m) |-> clean_text(m[i].paso.s)]

\* _create_action_summary(...)[0] raises IndexError on an empty summary
AiWhenRaises(steps) ==
  AiIntermediateRaises(steps) \/ create_action_summary(AiIntermediateOf(steps)) = <<>>
AiWhenOf(steps) == create_action_summary(AiIntermediateOf(steps))[1]

\* _ai_enhance_step: the text the generator continues the prompt with,
\* after the last 'Versión mejorada:', stripped.  The code does not
\* control it; three answers stand for it: the step repeated, nothing,
\* and a text longer than every limit
EnhanceModes == {"echo", "empty", "long"}
ai_enhance_step(step, mode) ==
  CASE mode = "echo" -> StripChars(step, IsSpace)
    [] mode = "empty" -> ""
    [] mode = "long" -> Rep("m", ThenLimit + 50)

\* (when_candidates[1:] + then_candidates[:-1])[:2]
AiAndSources(when_candidates, then_candidates) ==
  LET rest == SubSeq(when_candidates, 2, Len(when_candidates))
                \o SubSeq(then_candidates, 1, Len(then_candidates) - 1)
  IN SubSeq(rest, 1, Min(Len(rest), 2))

\* lines 71-113, sorted_steps not empty; generated[f] is the generator's
\* answer for field f
AiSynthesize(steps, labels, generated) ==
  LET given_candidates == Candidates(steps, labels, "Given")
      when_candidates == Candidates(steps, labels, "When")
      then_candidates == Candidates(steps, labels, "Then")
  IN IF \/ given_candidates = <<>> /\ GivenRaises(steps)
        \/ when_candidates = <<>> /\ AiWhenRaises(steps)
        \/ then_candidates = <<>> /\ ThenRaises(steps)
     THEN Raised
     ELSE LET given == IF given_candidates # <<>> THEN given_candidates[1]
                       ELSE GivenOf(steps)
              when == IF when_candidates # <<>> THEN when_candidates[1]
                      ELSE AiWhenOf(steps)
              then == IF then_candidates # <<>> THEN then_candidates[Len(then_candidates)]
                      ELSE ThenOf(steps)
              ands == AiAndSources(when_candidates, then_candidates)
          IN Structure(
               Prefix(ai_enhance_step(given, generated.Given), GivenLimit),
               Prefix(ai_enhance_step(when, generated.When), WhenLimit),
               [i \in 1..Len(ands) |->
                  Prefix(ai_enhance_step(ands[i], generated.And), AndLimit)],
               Prefix(ai_enhance_step(then, generated.Then), ThenLimit))

\* UltimateGherkinConverterAI._process_steps(raw_steps, module, title): an
\* entry without .get raises in the classification loop
ai_process_steps(raw_steps, labels, generated) ==
  IF raw_steps.t # "dict" THEN Raised
  ELSE Bind(sorted_steps(raw_steps.items), LAMBDA steps :
         IF steps = <<>> THEN EmptyStructure
         ELSE IF \E i \in 1..Len(steps) : steps[i].t # "dict" THEN Raised
         ELSE AiSynthesize(steps, labels, generated))

\* ------------------------------------------------------------------------
\* ValueEdgeExtractor: the script of a test turned into CasoPrueba
\* ------------------------------------------------------------------------
\* replacements of _clean_text, in insertion order.  The last two marks of
\* the table (U+2705 and U+274C, replaced by nothing as well) cannot be
\* written in a string of this module; no script modelled holds them.
VeReplacements == <<
  <<"ú", "u">>, <<"ó", "o">>, <<"í", "i">>, <<"é", "e">>, <<"É", "E">>,
  <<"⚪", "">>, <<"⦿", "">>, <<"⦾", "">>, <<"●", "">> >>

\* what the chain of text.replace(old, new) leaves of one character: no
\* replacement produces a character a later one replaces
VeReplaceChar(c) ==
  LET hits == {k \in 1..Len(VeReplacements) : VeReplacements[k][1] = c}
  IN IF hits = {} THEN c ELSE VeReplacements[CHOOSE k \in hits : TRUE][2]

\* ValueEdgeExtractor._clean_text
ve_clean_text(text) ==
  StripChars(JoinPieces(Len(text), LAMBDA i : VeReplaceChar(CharAt(text, i))), IsSpace)

\* s.split(sep), for a sep whose occurrences cannot overlap
SplitOn(s, sep) ==
  LET at == Occurrences(s, sep)
      n == Cardinality(at)
      nth(j) == CHOOSE p \in at : Cardinality({q \in at : q < p}) = j - 1
  IN [j \in 1..(n + 1) |->
        SubSeq(s, IF j = 1 THEN 1 ELSE nth(j - 1) + Len(sep),
                  IF j = n + 1 THEN Len(s) ELSE nth(j) - 1)]

\* line.replace('- ', '')
WithoutDashes(line) ==
  LET parts == SplitOn(line, "- ")
  IN JoinPieces(Len(parts), LAMBDA j : parts[j])

\* str(n) for n >= 0
RECURSIVE ToDecimal(_)
ToDecimal(n) ==
  IF n < 10 THEN CharAt(DigitChars, n + 1)
  ELSE ToDecimal(n \div 10) \o CharAt(DigitChars, (n % 10) + 1)

\* the position of key among the items of a mapping, 0 when it is absent
ItemIndex(items, key) ==
  IF \E i \in 1..Len(items) : items[i][1] = key
  THEN CHOOSE i \in 1..Len(items) : items[i][1] = key
  ELSE 0

\* The loop body after the line has been cleaned (lines 158-171): the
\* state is CasoPrueba, as its items in insertion order, and current_step
LineStep(st, line) ==
  LET key == ToDecimal(st.current_step)
      items == IF ItemIndex(st.items, key) = 0
               THEN Append(st.items, <<key, StepDict(JStr(""), JStr(""), JMissing)>>)
               ELSE st.items
      at == ItemIndex(items, key)
  IN IF line = "" THEN st
     ELSE IF SubSeq(line, 1, 1) = "?"
     THEN [items |-> [items EXCEPT ![at][2].validacion = JStr(line)],
           current_step |-> st.current_step + 1]
     ELSE [items |-> [items EXCEPT ![at][2].paso = JStr(WithoutDashes(line))],
           current_step |-> st.current_step]

\* the loop body with the line taken as it came
ScriptLineUncleaned(st, raw_line) == LineStep(st, raw_line)

\* One pass of the loop over the script lines (lines 156-171)
ScriptLine(st, raw_line) == LineStep(st, ve_clean_text(raw_line))

\* test_case["CasoPrueba"] after the loop over script.split("\n- ")
caso_prueba(script) ==
  LET lines == SplitOn(script, "\n- ")
      f[i \in 0..Len(lines)] ==
        IF i = 0 THEN [items |-> <<>>, current_step |-> 1]
        ELSE ScriptLine(f[i - 1], lines[i])
  IN StepMap(f[Len(lines)].items)

\* ------------------------------------------------------------------------
\* ValueEdgeExtractor: login and the two fetches
\* ------------------------------------------------------------------------
\* What a request made through self.session comes back with: an exception
\* (no connection, a body that is no JSON), or a response with a status,
\* the names of the cookies it sets, and a body.  One shape serves the
\* three bodies: 'data' of the tests query, 'script' of the script query.
HttpError == [error |-> TRUE, status |-> 0, cookies |-> {}, data |-> <<>>, script |-> JMissing]
Http(status, cookies, data, script) ==
  [error |-> FALSE, status |-> status, cookies |-> cookies, data |-> data, script |-> script]

\* Python values the methods return
PyNone == [t |-> "None"]
PyBool(b) == [t |-> "bool", b |-> b]
PyList(ids) == [t |-> "list", ids |-> ids]
TestCase(titulo, modulo, caso) ==
  [t |-> "dict", Titulo |-> titulo, Modulo |-> modulo, CasoPrueba |-> caso]

\* self.cookies: None after __init__, the dict of the two cookies later
NoCookies == [none |-> TRUE, names |-> {}]
CookieDict(names) == [none |-> FALSE, names |-> names]
\* the guard of the fetches left out
NoSessionIgnored(o) == FALSE

\* not self.cookies
NoSession(o) == o.cookies.none \/ o.cookies.names = {}

SessionCookies == {"OCTANE_USER", "LWSSO_COOKIE_KEY"}

\* the object after __init__: no cookies of its own, an empty cookie jar
\* in the session
NewExtractor == [cookies |-> NoCookies, jar |-> {}]

\* a line of the logger: its level, the fixed text it starts with, and
\* what the code puts after it where the model tells it (a status, a count)
LogLine(level, msg, with) == [level |-> level, msg |-> msg, with |-> with]
StatusText(r) == ToDecimal(r.status)

\* login() returns True: status 200 and both cookies in the response
LoginAccepted(r) ==
  ~r.error /\ r.status = 200 /\ SessionCookies \subseteq r.cookies

\* the object after login(): self.cookies is assigned on success only; the
\* session keeps the cookies of every response
AfterLogin(o, r) ==
  IF LoginAccepted(r)
  THEN [cookies |-> CookieDict(SessionCookies), jar |-> o.jar \cup r.cookies]
  ELSE [o EXCEPT !.jar = @ \cup r.cookies]

LoginLog(r) ==
  <<LogLine("info", "Intentando login en Value Edge...", "")>>
  \o (IF r.error THEN <<LogLine("error", "Error durante login: ", "")>>
      ELSE <<LogLine("info", "Código de respuesta: ", StatusText(r)),
             LogLine("info", "Cookies recibidas: ", "")>>
           \o (IF r.status # 200
               THEN <<LogLine("error", "Error en login: ", StatusText(r)),
                      LogLine("error", "Respuesta: ", "")>>
               ELSE IF LoginAccepted(r) THEN <<LogLine("info", "Login exitoso", "")>>
               ELSE <<LogLine("error", "No se recibieron las cookies esperadas", "")>>))

NoSessionLog == <<LogLine("error", "No hay sesión activa. Ejecute login() primero", "")>>

\* the requests of the two fetches
TitleRequest(test_id) == [method |-> "GET", path |-> "tests", test_id |-> test_id]
ScriptRequest(test_id) == [method |-> "GET", path |-> "tests/script", test_id |-> test_id]
ListRequest == [method |-> "GET", path |-> "tests", test_id |-> ""]
LoginRequest == [method |-> "POST", path |-> "authentication/sign_in", test_id |-> ""]

\* get_test_case goes on to the script request: the title response is a
\* 200 with a non-empty 'data'
TitleFound(r1) == ~r1.error /\ r1.status = 200 /\ r1.data # <<>>

\* what get_test_case returns once both responses are in: test_info is
\* data[0], with a name and the names of its application modules
TestCaseOf(r1, r2) ==
  IF \/ r2.error \/ r2.status # 200
     \/ r1.data[1].modules = <<>>      \* ['data'][0] raises IndexError
     \/ r2.script.t # "str"            \* ['script'] raises, or .split does
  THEN PyNone
  ELSE TestCase(r1.data[1].name, r1.data[1].modules[1], caso_prueba(r2.script.s))

TitleLog(test_id, r1) ==
  <<LogLine("info", "Obteniendo caso de prueba ", test_id)>>
  \o (IF r1.error THEN <<LogLine("error", "Error procesando caso de prueba: ", "")>>
      ELSE <<LogLine("info", "Respuesta de título: ", StatusText(r1))>>
           \o (IF r1.status # 200
               THEN <<LogLine("error", "Error obteniendo detalles del test: ", StatusText(r1)),
                      LogLine("error", "Respuesta: ", "")>>
               ELSE IF r1.data = <<>>
               THEN <<LogLine("error", "No se encontró el caso de prueba", "")>>
               ELSE <<>>))

ScriptLog(r1, r2) ==
  IF r2.error THEN <<LogLine("error", "Error procesando caso de prueba: ", "")>>
  ELSE <<LogLine("info", "Respuesta de pasos: ", StatusText(r2))>>
       \o (IF r2.status # 200
           THEN <<LogLine("error", "Error obteniendo pasos del test: ", StatusText(r2)),
                  LogLine("error", "Respuesta: ", "")>>
           ELSE IF TestCaseOf(r1, r2) = PyNone
           THEN <<LogLine("error", "Error procesando caso de prueba: ", "")>>
           ELSE <<>>)

\* what get_all_test_cases returns for a response: 'data' holds the ids
TestIdsOf(r) ==
  IF r.error \/ r.status # 200 THEN PyNone ELSE PyList(r.data)

ListLog(r) ==
  <<LogLine("info", "Obteniendo lista de casos de prueba...", "")>>
  \o (IF r.error
      THEN <<LogLine("error", "Error obteniendo lista de casos de prueba: ", "")>>
      ELSE IF r.status # 200
      THEN <<LogLine("error", "Error obteniendo lista de tests: ", StatusText(r))>>
      ELSE IF r.data = <<>>
      THEN <<LogLine("info", "No se encontraron casos de prueba", "")>>
      ELSE <<LogLine("info", "Se encontraron ", ToDecimal(Len(r.data)) \o " casos de prueba")>>)

\* ------------------------------------------------------------------------
\* JiraExtractor.get_all_issues
\* ------------------------------------------------------------------------
MaxResults == 100

\* params of the search request for one page
SearchRequest(project_key, start_at) ==
  [jql |-> "project = " \o project_key, startAt |-> start_at,
   maxResults |-> MaxResults, fields |-> "key"]

\* What the search comes back with: an exception from session.get or
\* response.json(), or a response with a status and, in its body, 'total'
\* (a number, or null when absent) and 'issues': the keys of the issues,
\* wellformed telling whether every issue holds a 'key'
SearchError == [error |-> TRUE, status |-> 0, total |-> JNull, issues |-> <<>>, wellformed |-> TRUE]
SearchPage(status, total, issues, wellformed) ==
  [error |-> FALSE, status |-> status, total |-> total, issues |-> issues,
   wellformed |-> wellformed]

\* the locals after start_at = 0 (lines 105-107)
IssueLocals == [issues |-> <<>>, start_at |-> 0]

\* the iteration ends the call with None: an exception from the request,
\* a status other than 200, an issue without 'key' (KeyError), or a total
\* that does not compare with a number (TypeError)
PageFails(r) ==
  r.error \/ r.status # 200 \/ ~r.wellformed \/ r.total.t # "num"

\* issues.extend(...) is reached and does not raise
PageExtends(r) == ~r.error /\ r.status = 200 /\ r.wellformed

\* data.get("total") <= start_at + max_results, compared one short
LastPageStrict(total, start_at) == total < start_at + MaxResults

\* data.get("total") <= start_at + max_results
LastPage(total, start_at) == total <= start_at + MaxResults

\* the locals after one pass of the loop body (lines 110-134)
AfterPage(locals, r) ==
  [issues |-> IF PageExtends(r) THEN locals.issues \o r.issues ELSE locals.issues,
   start_at |-> IF PageFails(r) \/ LastPage(r.total.n, locals.start_at)
                THEN locals.start_at
                ELSE locals.start_at + MaxResults]

\* the loop goes on to another page
NextPageWanted(locals, r) == ~PageFails(r) /\ ~LastPage(r.total.n, locals.start_at)

\* what get_all_issues returns when the loop ends with this page
IssuesReturned(locals, r) ==
  IF PageFails(r) THEN PyNone ELSE PyList(locals.issues \o r.issues)

\* logger.error(f"Error: ...") for a status other than 200 and in the except clause
PageLog(r) == IF PageFails(r) THEN <<LogLine("error", "Error: ", "")>> ELSE <<>>

\* ------------------------------------------------------------------------
\* convert(): one input file and what one loop iteration does with it
\* ------------------------------------------------------------------------
DefaultModulo == "Modulo_Principal"
DefaultTitulo == "Escenario_Principal"

\* The parsed document: a mapping with Modulo, Titulo and CasoPrueba
\* (each possibly missing), or a value without .get
Document(modulo, titulo, caso) ==
  [t |-> "dict", Modulo |-> modulo, Titulo |-> titulo, CasoPrueba |-> caso]
NonDictDocument(t) ==
  [t |-> t, Modulo |-> JMissing, Titulo |-> JMissing, CasoPrueba |-> NonDictSteps("missing")]

\* A file of the input directory: its name, whether open() and
\* json.load() succeed on it (read: "ok", "unreadable", "badjson"), what
\* writing its feature file does (write: "ok", "openfail": open(..., 'w')
\* raises and the path is untouched, "writefail": the file is opened,
\* hence truncated, and f.write raises), and the parsed document.
InputFile(name, read, write, data) ==
  [name |-> name, read |-> read, write |-> write, data |-> data]

\* filename.endswith('.json')
EndsWithJson(name) ==
  Len(name) >= Len(SourceExt) /\ SubSeq(name, Len(name) - Len(SourceExt) + 1, Len(name)) = SourceExt

\* data["Modulo"] taken as it is, without the default of data.get
ModuloOfNoDefault(data) == data.Modulo

\* data.get("CasoPrueba", {}) etc.
CasoPruebaOf(data) ==
  IF data.CasoPrueba.t = "missing" THEN StepMap(<<>>) ELSE data.CasoPrueba
ModuloOf(data) == IF data.Modulo.t = "missing" THEN JStr(DefaultModulo) ELSE data.Modulo
TituloOf(data) == IF data.Titulo.t = "missing" THEN JStr(DefaultTitulo) ELSE data.Titulo

\* os.path.join(self.output_dir, feature_filename), relative to output_dir
OutputPath(name) == normalize_filename(name)

\* The body of the try block for one file: ok tells whether it reached the
\* final print, touched whether the output path was opened for writing,
\* content what the path then holds.
Failed == [ok |-> FALSE, touched |-> FALSE, content |-> ""]

\* with open(output_file, 'w') as f: f.write(feature_content)
write_feature(file, feature) ==
  IF feature.raised THEN Failed
  ELSE IF file.write = "openfail" THEN Failed
  ELSE IF file.write = "writefail" THEN [ok |-> FALSE, touched |-> TRUE, content |-> ""]
  ELSE [ok |-> TRUE, touched |-> TRUE, content |-> feature.text]

\* _generate_feature(...) and the write, once _process_steps has returned
render_record(file, processed) ==
  IF processed.raised THEN Failed
  ELSE Bind(generate_feature(ModuloOf(file.data), TituloOf(file.data), processed),
            LAMBDA feature : write_feature(file, feature))

convert_record(file) ==
  IF file.read # "ok" THEN Failed
  ELSE IF file.data.t # "dict" THEN Failed
  ELSE Bind(process_steps(CasoPruebaOf(file.data)),
            LAMBDA processed : render_record(file, processed))

\* The output directory as a set of <<path, content>>, one per path
WriteFile(fs, path, content) == {o \in fs : o[1] # path} \cup {<<path, content>>}

\* The output directory after an iteration for file that ended as r
OutputsAfter(fs, file, r) ==
  IF r.touched THEN WriteFile(fs, OutputPath(file.name), r.content) ELSE fs

\* What the iteration prints after "Procesando archivo"
LogAfter(file, r) ==
  IF r.ok
  THEN <<[msg |-> "Archivo generado", name |-> file.name]>>
  ELSE <<[msg |-> "Error procesando", name |-> file.name]>>

\* The loop without the try/except: a failed record ends the batch
AfterRecordUncaught(r) == IF r.ok THEN "loop" ELSE "aborted"

\* Where the loop goes after an iteration that ended as r: `except
\* Exception` catches whatever the try block raised, so the loop goes on
AfterRecord(r) == "loop"

\* ------------------------------------------------------------------------
\* Bounded inputs
\* ------------------------------------------------------------------------
MaxSteps == 3
MaxMalformed == 2
MaxMid == 4
MaxSummarySteps == 4
MaxFiles == 3
MaxRenderSteps == 2
MaxRenderMid == 3
MaxPartialFiles == 2
MaxLongSteps == 2
MaxPages == 4
MaxLines == 4
MaxCalls == 4
MaxAiSteps == 3
MaxMidRepeat == 2
MaxNameLen == 3
LongLen == 200

SeqsUpTo(S, n) == UNION {[1..k -> S] : k \in 0..n}
Distinct(seq) == \A i, j \in 1..Len(seq) : i # j => seq[i] # seq[j]

LongText == Rep("a", LongLen)

\* the key "1", "2", ... of the i-th entry
KeyOf(i) == CharAt(DigitChars, i + 1)
\* entries under the keys "1".."n", in that order
Numbered(entries) == StepMap([i \in 1..Len(entries) |-> <<KeyOf(i), entries[i]>>])

Plain(paso, validacion) == StepDict(JStr(paso), JStr(validacion), JMissing)

\* entries with string fields: usual texts, texts that clean to nothing,
\* line breaks, accents, missing fields
TextEntries ==
  { Plain("Capturar nombre", ""),
    Plain("Clic en Guardar", "?Se muestra confirmacion"),
    StepDict(JMissing, JMissing, JMissing),
    Plain("???", "?ab"),
    Plain("", "123"),
    Plain("Validar ÷ dato-1", "ab"),
    Plain(" ingresar\nclave ", " Éxito - ok\n") }

\* entries with texts over every length limit, next to short ones
LongEntries ==
  { Plain("? " \o LongText \o ".", LongText \o " fin"),
    Plain("Capturar nombre", "Visto"),
    Plain("???", "") }

\* items whose keys sort, do not parse, or are replaced by a 'key' field
KeyedItems ==
  { <<"2", Plain("Abrir dos", "Visto dos")>>,
    <<"10", Plain("Abrir diez", "Visto diez")>>,
    <<" 1", Plain("Abrir uno", "Visto uno")>>,
    <<"x", Plain("Abrir equis", "Visto equis")>>,
    <<"3", StepDict(JStr("Abrir tres"), JStr("Visto tres"), JNum(0))>>,
    <<"4", StepDict(JStr("Abrir cuatro"), JStr("Visto cuatro"), JStr("b"))>>,
    <<"5", StepDict(JStr("Abrir cinco"), JStr("Visto cinco"), JNull)>> }

\* entries a JSON document can hold that are not text: null, numbers,
\* lists, entries that are no mappings
MalformedEntries ==
  { Plain("Clic en Guardar", "?Se muestra confirmacion"),
    StepDict(JNull, JStr("Se muestra ok"), JMissing),
    StepDict(JNum(5), JMissing, JMissing),
    StepDict(JNum(0), JStr(""), JMissing),
    StepDict(JList(1), JMissing, JMissing),
    StepDict(JList(3), JMissing, JMissing),
    StepDict(JStr("Capturar"), JNull, JMissing),
    StepDict(JStr("Capturar"), JNum(7), JMissing),
    StepDict(JStr("Capturar"), JList(3), JMissing),
    NonDictEntry("null"),
    NonDictEntry("list") }

\* intermediate steps of every category and of none
CategoryEntries ==
  { Plain("Dar clic en Aceptar", ""),
    Plain("Capturar el monto", ""),
    Plain("Validar el saldo", "Saldo correcto"),
    Plain("Habilitar seccion", ""),
    Plain("Abrir menu", "") }

StepInputs ==
  {Numbered(e) : e \in SeqsUpTo(TextEntries, MaxSteps)}
  \cup {Numbered(e) : e \in SeqsUpTo(LongEntries, MaxLongSteps)}
  \cup {StepMap(items) : items \in {q \in SeqsUpTo(KeyedItems, MaxSteps) : Distinct(q)}}
  \cup {Numbered(e) : e \in SeqsUpTo(MalformedEntries, MaxMalformed)}
  \cup {NonDictSteps(t) : t \in {"null", "list", "str", "num"}}
  \cup {Numbered(<<Plain("Capturar nombre", "")>> \o mid
                 \o <<Plain("Clic en Guardar", "?Se muestra confirmacion")>>) :
          mid \in {q \in SeqsUpTo(CategoryEntries, MaxMid) :
                      Distinct(q) \/ Len(q) <= MaxMidRepeat}}

SummaryTexts ==
  { "Dar clic en Aceptar", "Capturar el monto", "VALIDAR saldo", "Desplegar seccion",
    "Abrir menu", "clic, capturar, validar y habilitar" }
SummaryInputs == SeqsUpTo(SummaryTexts, MaxSummarySteps)

ClassifyWords == {"mostrar", "capturar", "clic en", "verificar", "el campo", "?Se muestra"}
ClassifyInputs ==
  ClassifyWords \cup {a \o " " \o b : a, b \in ClassifyWords}
  \cup {"mostrar el campo capturar"}

\* File names: every stem over NameAlphabet up to MaxNameLen characters
\* with the source extension, the documented example, and names holding
\* the extension twice or in the middle
NameAlphabet == <<"a", "B", "1", "_", "-", " ", ".", "#", "é">>
NameStems ==
  {JoinPieces(Len(q), LAMBDA i : q[i]) :
     q \in SeqsUpTo({NameAlphabet[i] : i \in 1..Len(NameAlphabet)}, MaxNameLen)}
DocumentedName == "Módulo-Prueba #1.json"
NameInputs ==
  {stem \o SourceExt : stem \in NameStems}
  \cup {DocumentedName, "a.json.json", "a.jsonb.json", "Ñandú  --  ÷2.json", "_.-_ .json"}

\* Calls of the AI variant's _process_steps: a step mapping, the label the
\* classifier answers for each entry, and the generator's answer per field
\* (the same kind of answer for every field of one call)
AiEntries ==
  { Plain("Abrir menu", ""),
    Plain("Clic en Guardar", "?Se muestra confirmacion"),
    Plain("", "Visto") }
AiCall(raw, labels, generated) ==
  [raw_steps |-> raw, labels |-> labels, generated |-> generated]
AiInputs(entries, n) ==
  UNION {{AiCall(raw, labels, generated) :
            labels \in [1..Len(raw.items) -> ai_classify_step("")],
            generated \in {[f \in {"Given", "When", "And", "Then"} |-> m] :
                             m \in EnhanceModes}} :
         raw \in {Numbered(e) : e \in SeqsUpTo(entries, n)}
                 \cup { NonDictSteps("list"),
                        Numbered(<<StepDict(JStr("Validar saldo"), JNull, JMissing)>>),
                        Numbered(<<NonDictEntry("null")>>) }}

\* What the Value Edge server can answer: to the sign-in, to the query for
\* the title of a test, to the query for its script, to the list of tests
NoBody(status, cookies) == Http(status, cookies, <<>>, JMissing)
LoginResponses ==
  { HttpError, NoBody(401, {}), NoBody(200, {}), NoBody(200, {"OCTANE_USER"}),
    NoBody(200, SessionCookies) }
TestInfo(name, modules) == [name |-> name, modules |-> modules]
TitleResponses ==
  { HttpError, NoBody(404, {}), NoBody(200, {}),
    Http(200, {}, <<TestInfo("Flujo_Alta_Cliente", <<"Reg-Altas">>)>>, JMissing),
    Http(200, {}, <<TestInfo("Flujo_Sin_Modulo", <<>>)>>, JMissing) }
FetchedScripts == {"", "Capturar nombre\n- Clic en Guardar\n- ?Se muestra confirmacion"}
ScriptResponses ==
  { HttpError, NoBody(500, {}), NoBody(200, {}) }
  \cup {Http(200, {}, <<>>, JStr(script)) : script \in FetchedScripts}
ListResponses ==
  { HttpError, NoBody(500, {}), NoBody(200, {}), Http(200, {}, <<"1001", "1002">>, JMissing) }
TestIds == {"1001"}

\* Scripts of a test: up to MaxLines pieces joined by the separator the
\* code splits on (actions, validations, nothing, marks and blanks only, a
\* validation behind a mark, dashes inside a line, a line break inside a
\* line, an accent), and one script of more than nine steps
ScriptPieces ==
  << "Abrir menu", "?Se muestra menu", "", "⚪ ", "●?Visto bueno", "- Dar - clic",
     "Capturar opción\nen lista" >>
ScriptOf(pieces) ==
  JoinPieces(Len(pieces), LAMBDA i : (IF i = 1 THEN "" ELSE "\n- ") \o pieces[i])
ScriptInputs ==
  {ScriptOf(q) : q \in SeqsUpTo({ScriptPieces[i] : i \in 1..Len(ScriptPieces)}, MaxLines) \ {<<>>}}
  \cup {Rep("Paso\n- ?ok\n- ", 11) \o "Fin"}

\* Jira servers: one reports the same total on every page (a number up
\* to MaxPages pages, or no total at all), one reports a total that always
\* lies beyond the page asked for
Totals ==
  {t \in (0 - 1)..(MaxPages * MaxResults) : (t % MaxResults) \in {0, 1, 50, MaxResults - 1}}
JiraServer(total, grows) == [project_key |-> "GIA", total |-> total, grows |-> grows]
JiraServers ==
  {JiraServer(JNum(t), FALSE) : t \in Totals}
  \cup {JiraServer(JNull, FALSE), JiraServer(JNum(0), TRUE)}
\* the total the server reports for the page at start_at
TotalReported(server, start_at) ==
  IF server.grows THEN JNum(start_at + MaxResults + 1) ELSE server.total
\* the keys of the issues of a page
PageKeys(start_at) == <<"GIA-" \o ToDecimal(start_at + 1), "GIA-" \o ToDecimal(start_at + 2)>>
\* the answers to the request for the page at start_at
PageResponses(server, start_at) ==
  { SearchError,
    SearchPage(500, JNull, <<>>, TRUE),
    SearchPage(200, TotalReported(server, start_at), PageKeys(start_at), TRUE),
    SearchPage(200, TotalReported(server, start_at), <<>>, TRUE),
    SearchPage(200, TotalReported(server, start_at), <<>>, FALSE) }

\* Arguments of _generate_feature: module and title names with hyphens,
\* underscores, line breaks, accents, runs of other characters, nothing,
\* and a title over the scenario limit; structures _process_steps returns
ModuleNames ==
  { "Reg-Altas", "Caja - Retiros\nNuevos", "__x__", "módulo ÷ 3", "", "a-b-",
    "Sección_1--Alta.de cliente" }
TitleNames ==
  { "Flujo_Alta_Cliente", "alta de cliente", "Flujo_alta\nDE   cliente-2a", "", "x_",
    "Flujo_" \o Rep("ab ", 30), "caso_ÉXITO total" }
RenderSteps ==
  {Numbered(e) : e \in SeqsUpTo(TextEntries, MaxRenderSteps)}
  \cup {Numbered(<<Plain(" ingresar\nclave ", "")>> \o mid
                 \o <<Plain("? " \o LongText \o ".", LongText \o " fin")>>) :
          mid \in SeqsUpTo(CategoryEntries, MaxRenderMid)}
RenderCall(module, title, raw) ==
  [module |-> JStr(module), title |-> JStr(title), steps |-> process_steps(raw)]
\* every pair of names with one structure, every structure with one pair
RenderInputs(modules, titles, raws) ==
  {RenderCall(m, t, Numbered(<<Plain("Capturar nombre", "Visto")>>)) :
     m \in modules, t \in titles}
  \cup {RenderCall("Reg-Altas", "Flujo_Alta_Cliente", raw) : raw \in raws}

\* The record of the end-to-end example
ExampleDocument ==
  Document(JStr("Reg-Altas"), JStr("Flujo_Alta_Cliente"),
           StepMap(<< <<"1", Plain("Capturar nombre", "")>>,
                      <<"2", Plain("Clic en Guardar", "?Se muestra confirmacion")>> >>))
ExampleName == "Alta Cliente.json"

OtherDocument ==
  Document(JStr("Caja-Retiros"), JStr("Flujo_Retiro_Efectivo"),
           StepMap(<< <<"1", Plain("Capturar monto", "")>>,
                      <<"2", Plain("Validar saldo", "")>>,
                      <<"3", Plain("Clic en Retirar", "Se entrega efectivo")>> >>))

\* The files an input directory is drawn from: records that convert,
\* names that normalise alike, each kind of failure, a file that is no
\* record
FileCatalogue ==
  { InputFile(ExampleName, "ok", "ok", ExampleDocument),
    InputFile("a b.json", "ok", "ok", ExampleDocument),
    InputFile("a_b.json", "ok", "ok", OtherDocument),
    InputFile("á-b.json", "ok", "writefail", OtherDocument),
    InputFile("vacio.json", "ok", "ok", Document(JMissing, JMissing, NonDictSteps("missing"))),
    InputFile("ilegible.json", "unreadable", "ok", OtherDocument),
    InputFile("roto.json", "badjson", "ok", OtherDocument),
    InputFile("lista.json", "ok", "ok", NonDictDocument("list")),
    InputFile("nulo.json", "ok", "ok",
              Document(JStr("Caja"), JStr("Nulo"),
                       StepMap(<< <<"1", StepDict(JStr("Capturar"), JNull, JMissing)>> >>))),
    InputFile("modulo.json", "ok", "ok", Document(JNum(7), JStr("Titulo"), StepMap(<<>>))),
    InputFile("protegido.json", "ok", "openfail", ExampleDocument),
    InputFile("notas.txt", "ok", "ok", OtherDocument) }

Directories == {d \in SUBSET FileCatalogue : Cardinality(d) <= MaxFiles}

\* Records that parse as a mapping and lack any of Modulo, Titulo and
\* CasoPrueba (m, t, c tell which are present), under names that
\* normalise apart, and a file that is no record
PartialRecord(m, t, c) ==
  InputFile("r" \o (IF m THEN "M" ELSE "") \o (IF t THEN "T" ELSE "") \o (IF c THEN "C" ELSE "")
              \o SourceExt,
            "ok", "ok",
            Document(IF m THEN JStr("Reg-Altas") ELSE JMissing,
                     IF t THEN JStr("Flujo_Alta_Cliente") ELSE JMissing,
                     IF c THEN ExampleDocument.CasoPrueba ELSE NonDictSteps("missing")))
PartialCatalogue ==
  {PartialRecord(m, t, c) : m, t, c \in BOOLEAN}
  \cup {InputFile("LEEME.txt", "ok", "ok", ExampleDocument)}
PartialDirectories == {d \in SUBSET PartialCatalogue : Cardinality(d) <= MaxPartialFiles}

\* ------------------------------------------------------------------------
\* State
\* ------------------------------------------------------------------------
VARIABLES
  pc,        \* where the run is: "start", "loop", "done" for convert();
             \* "call", "return" for a function applied to arg
  dir,       \* the files of input_dir
  pending,   \* the names os.listdir returned that the loop has not reached
  outputs,   \* the files of output_dir, as <<path, content>>
  log,       \* the lines printed, in order
  arg,       \* the argument of the function under study; the calls made
             \* so far on an extractor
  ret,       \* its result; the value the last call returned
  obj,       \* the fields of the extractor object, the locals of its loop
  net        \* the HTTP exchanges so far, as <<request, response>>

vars == <<pc, dir, pending, outputs, log, arg, ret, obj, net>>
batchVars == <<dir, pending, outputs, log>>
callVars == <<arg, ret>>
extractorVars == <<obj, net>>

NoValue == "-"

\* ------------------------------------------------------------------------
\* convert()
\* ------------------------------------------------------------------------
Init ==
  /\ pc = "start"
  /\ dir \in Directories
  /\ pending = {}
  /\ outputs = {}
  /\ log = <<>>
  /\ arg = NoValue
  /\ ret = NoValue
  /\ obj = NoValue /\ net = <<>>

\* os.makedirs(output_dir) if needed, then os.listdir(input_dir)
ListDir ==
  /\ pc = "start"
  /\ pc' = "loop"
  /\ pending' = {f.name : f \in dir}
  /\ UNCHANGED <<dir, outputs, log, arg, ret, obj, net>>

\* One iteration for a name that does not end in '.json': nothing happens.
\* os.listdir returns the names in arbitrary order.
SkipFile ==
  /\ pc = "loop"
  /\ \E name \in pending :
        /\ ~EndsWithJson(name)
        /\ pending' = pending \ {name}
  /\ UNCHANGED <<pc, dir, outputs, log, arg, ret, obj, net>>

\* One iteration for a '.json' file: the whole try/except
ConvertFile ==
  /\ pc = "loop"
  /\ \E file \in dir :
        /\ file.name \in pending
        /\ EndsWithJson(file.name)
        /\ pending' = pending \ {file.name}
        /\ \E r \in {convert_record(file)} :
              /\ outputs' = OutputsAfter(outputs, file, r)
              /\ log' = log \o <<[msg |-> "Procesando archivo", name |-> file.name]>>
                            \o LogAfter(file, r)
              /\ pc' = AfterRecord(r)
  /\ UNCHANGED <<dir, arg, ret, obj, net>>

\* The for loop is exhausted
Finish ==
  /\ pc = "loop"
  /\ pending = {}
  /\ pc' = "done"
  /\ UNCHANGED <<dir, pending, outputs, log, arg, ret, obj, net>>

Next == ListDir \/ SkipFile \/ ConvertFile \/ Finish

Spec == Init /\ [][Next]_vars

\* convert() on a directory of records that lack keys
InitPartial ==
  /\ pc = "start"
  /\ dir \in PartialDirectories
  /\ pending = {}
  /\ outputs = {}
  /\ log = <<>>
  /\ arg = NoValue
  /\ ret = NoValue
  /\ obj = NoValue /\ net = <<>>

SpecPartial == InitPartial /\ [][Next]_vars

\* ------------------------------------------------------------------------
\* _process_steps applied to one CasoPrueba value
\* ------------------------------------------------------------------------
InitCall(inputs) ==
  /\ pc = "call"
  /\ arg \in inputs
  /\ ret = NoValue
  /\ dir = {} /\ pending = {} /\ outputs = {} /\ log = <<>>
  /\ obj = NoValue /\ net = <<>>

InitSteps == InitCall(StepInputs)

ProcessSteps ==
  /\ pc = "call"
  /\ ret' = process_steps(arg)
  /\ pc' = "return"
  /\ UNCHANGED <<arg, dir, pending, outputs, log, obj, net>>

NextSteps == ProcessSteps

SpecSteps == InitSteps /\ [][NextSteps]_vars

\* ------------------------------------------------------------------------
\* _create_action_summary applied to one list of steps
\* ------------------------------------------------------------------------
InitSummary == InitCall(SummaryInputs)

CreateActionSummary ==
  /\ pc = "call"
  /\ ret' = create_action_summary(arg)
  /\ pc' = "return"
  /\ UNCHANGED <<arg, dir, pending, outputs, log, obj, net>>

NextSummary == CreateActionSummary

SpecSummary == InitSummary /\ [][NextSummary]_vars

\* ------------------------------------------------------------------------
\* _ai_classify_step applied to one text
\* ------------------------------------------------------------------------
InitClassify == InitCall(ClassifyInputs)

AiClassifyStep ==
  /\ pc = "call"
  /\ ret' \in ai_classify_step(arg)
  /\ pc' = "return"
  /\ UNCHANGED <<arg, dir, pending, outputs, log, obj, net>>

NextClassify == AiClassifyStep

SpecClassify == InitClassify /\ [][NextClassify]_vars

\* ------------------------------------------------------------------------
\* _normalize_filename applied to one file name, and again to its result
\* rebuilt with the source extension
\* ------------------------------------------------------------------------
InitNormalize == InitCall(NameInputs)

NormalizeFilename ==
  /\ pc = "call"
  /\ ret' = normalize_filename(arg)
  /\ pc' = "return"
  /\ UNCHANGED <<arg, dir, pending, outputs, log, obj, net>>

\* the feature name with '.feature' replaced by '.json'
Rebuilt(name) == SubSeq(name, 1, Len(name) - Len(FeatureExt)) \o SourceExt

\* The result, rebuilt as a source name, is normalised again; log keeps
\* the first result
NormalizeAgain ==
  /\ pc = "return"
  /\ arg' = Rebuilt(ret)
  /\ ret' = normalize_filename(Rebuilt(ret))
  /\ log' = <<ret>>
  /\ pc' = "again"
  /\ UNCHANGED <<dir, pending, outputs, obj, net>>

NextNormalize == NormalizeFilename \/ NormalizeAgain

SpecNormalize == InitNormalize /\ [][NextNormalize]_vars

\* ------------------------------------------------------------------------
\* _generate_feature applied to a module, a title and a structure
\* ------------------------------------------------------------------------
InitRender == InitCall(RenderInputs(ModuleNames, TitleNames, RenderSteps))

GenerateFeature ==
  /\ pc = "call"
  /\ ret' = generate_feature(arg.module, arg.title, arg.steps)
  /\ pc' = "return"
  /\ UNCHANGED <<arg, dir, pending, outputs, log, obj, net>>

NextRender == GenerateFeature

SpecRender == InitRender /\ [][NextRender]_vars

\* ------------------------------------------------------------------------
\* UltimateGherkinConverterAI._process_steps applied to one step mapping,
\* under one behaviour of the two pipelines
\* ------------------------------------------------------------------------
InitAi == InitCall(AiInputs(AiEntries, MaxAiSteps))

AiProcessSteps ==
  /\ pc = "call"
  /\ ret' = ai_process_steps(arg.raw_steps, arg.labels, arg.generated)
  /\ pc' = "return"
  /\ UNCHANGED <<arg, dir, pending, outputs, log, obj, net>>

NextAi == AiProcessSteps

SpecAi == InitAi /\ [][NextAi]_vars

\* ------------------------------------------------------------------------
\* A ValueEdgeExtractor and the calls made on it, in any order
\* ------------------------------------------------------------------------
InitExtractor ==
  /\ pc = "ready"
  /\ arg = <<>>
  /\ ret = NoValue
  /\ obj = NewExtractor
  /\ net = <<>>
  /\ log = <<>>
  /\ dir = {} /\ pending = {} /\ outputs = {}

\* login()
Login ==
  /\ pc = "ready" /\ Len(arg) < MaxCalls
  /\ arg' = Append(arg, <<"login", "">>)
  /\ \E r \in LoginResponses :
        /\ net' = Append(net, <<LoginRequest, r>>)
        /\ obj' = AfterLogin(obj, r)
        /\ ret' = PyBool(LoginAccepted(r))
        /\ log' = log \o LoginLog(r)
  /\ UNCHANGED <<pc, dir, pending, outputs>>

\* get_test_case(test_id)
GetTestCase ==
  /\ pc = "ready" /\ Len(arg) < MaxCalls
  /\ \E test_id \in TestIds :
        /\ arg' = Append(arg, <<"get_test_case", test_id>>)
        /\ IF NoSession(obj)
           THEN /\ ret' = PyNone
                /\ log' = log \o NoSessionLog
                /\ net' = net
           ELSE \E r1 \in TitleResponses :
                   IF ~TitleFound(r1)
                   THEN /\ ret' = PyNone
                        /\ log' = log \o TitleLog(test_id, r1)
                        /\ net' = Append(net, <<TitleRequest(test_id), r1>>)
                   ELSE \E r2 \in ScriptResponses :
                           /\ ret' = TestCaseOf(r1, r2)
                           /\ log' = log \o TitleLog(test_id, r1) \o ScriptLog(r1, r2)
                           /\ net' = net \o << <<TitleRequest(test_id), r1>>,
                                               <<ScriptRequest(test_id), r2>> >>
  /\ UNCHANGED <<pc, obj, dir, pending, outputs>>

\* get_all_test_cases()
GetAllTestCases ==
  /\ pc = "ready" /\ Len(arg) < MaxCalls
  /\ arg' = Append(arg, <<"get_all_test_cases", "">>)
  /\ IF NoSession(obj)
     THEN /\ ret' = PyNone
          /\ log' = log \o NoSessionLog
          /\ net' = net
     ELSE \E r \in ListResponses :
             /\ ret' = TestIdsOf(r)
             /\ log' = log \o ListLog(r)
             /\ net' = Append(net, <<ListRequest, r>>)
  /\ UNCHANGED <<pc, obj, dir, pending, outputs>>

NextExtractor == Login \/ GetTestCase \/ GetAllTestCases

SpecExtractor == InitExtractor /\ [][NextExtractor]_vars

\* ------------------------------------------------------------------------
\* The loop of get_test_case over the lines of one script
\* ------------------------------------------------------------------------
InitScript == InitCall(ScriptInputs)

BuildCasoPrueba ==
  /\ pc = "call"
  /\ ret' = caso_prueba(arg)
  /\ pc' = "return"
  /\ UNCHANGED <<arg, dir, pending, outputs, log, obj, net>>

NextScript == BuildCasoPrueba

SpecScript == InitScript /\ [][NextScript]_vars

\* ------------------------------------------------------------------------
\* JiraExtractor.get_all_issues against one server, page by page
\* ------------------------------------------------------------------------
InitIssues ==
  /\ pc = "call"
  /\ arg \in JiraServers
  /\ ret = NoValue
  /\ obj = NoValue
  /\ net = <<>>
  /\ log = <<>>
  /\ dir = {} /\ pending = {} /\ outputs = {}

\* issues = [], start_at = 0, max_results = 100
StartIssues ==
  /\ pc = "call"
  /\ obj' = IssueLocals
  /\ pc' = "loop"
  /\ UNCHANGED <<arg, ret, net, log, dir, pending, outputs>>

\* One pass of the while loop: the request for the page at start_at and
\* what the code does with the answer.  A server whose total keeps
\* growing is followed for MaxPages pages.
FetchPage ==
  /\ pc = "loop"
  /\ obj.start_at < MaxPages * MaxResults
  /\ \E r \in PageResponses(arg, obj.start_at) :
        /\ net' = Append(net, <<SearchRequest(arg.project_key, obj.start_at), r>>)
        /\ obj' = AfterPage(obj, r)
        /\ log' = log \o PageLog(r)
        /\ IF NextPageWanted(obj, r)
           THEN pc' = "loop" /\ ret' = ret
           ELSE pc' = "done" /\ ret' = IssuesReturned(obj, r)
  /\ UNCHANGED <<arg, dir, pending, outputs>>

NextIssues == StartIssues \/ FetchPage

\* the call runs on while it has a step to take
SpecIssues == InitIssues /\ [][NextIssues]_vars /\ WF_vars(NextIssues)

\* ------------------------------------------------------------------------
\* Properties of _process_steps (SpecSteps)
\* ------------------------------------------------------------------------
\* The step mapping is a mapping whose entries are mappings with string
\* 'paso' and 'validacion' fields, each possibly missing or empty
WellFormedSteps(raw) ==
  /\ raw.t = "dict"
  /\ \A i \in 1..Len(raw.items) :
        /\ raw.items[i][2].t = "dict"
        /\ raw.items[i][2].paso.t \in {"str", "missing"}
        /\ raw.items[i][2].validacion.t \in {"str", "missing"}

\* C1: for every step mapping whose entries are mappings with string (or
\* missing, or empty) paso and validacion, _process_steps returns a
\* structure whose Given, When and Then are non-empty and whose And has at
\* most 2 entries.
C1_NonEmptyGivenWhenThen ==
  (pc = "return" /\ WellFormedSteps(arg)) =>
     /\ ~ret.raised
     /\ ret.Given # "" /\ ret.When # "" /\ ret.Then # ""
     /\ Len(ret.And) <= 2

\* A mapping with an empty validacion and with intermediate steps of all
\* four categories has returned with two And entries
C1_Witness ==
  /\ pc = "return" /\ WellFormedSteps(arg)
  /\ \E i \in 1..Len(arg.items) : arg.items[i][2].validacion = JStr("")
  /\ \A k \in 1..Len(ActionMap) :
        \E i \in 2..(Len(arg.items) - 1) :
           SearchAny(arg.items[i][2].paso.s, ActionMap[k].pattern)
  /\ ~ret.raised /\ Len(ret.And) = 2

\* C2: _process_steps never raises, whatever value of a parsed JSON
\* document CasoPrueba holds (entries that are no mappings, null or
\* non-string fields, a CasoPrueba that is no mapping): it always returns a
\* structure.
C2_NeverRaises == pc = "return" => ~ret.raised

\* C3: for an empty step mapping _process_steps returns exactly Given
\* 'Iniciar flujo', When 'Ejecutar proceso', Then 'Proceso finalizado
\* exitosamente', And []; and it returns this structure for no other
\* mapping.
C3_EmptyMappingDefault ==
  (pc = "return" /\ arg.t = "dict") =>
     ((arg.items = <<>>) <=>
        (ret = Structure("Iniciar flujo", "Ejecutar proceso", <<>>,
                         "Proceso finalizado exitosamente")))

\* The empty mapping has returned, with the When of the empty case
C3_Witness ==
  /\ pc = "return" /\ arg.t = "dict" /\ arg.items = <<>>
  /\ ~ret.raised /\ ret.When = "Ejecutar proceso" /\ ret.And = <<>>

\* the cleaned first truthy action text of the ordered entries, "" when
\* there is none
FirstActionCleaned(raw) ==
  LET steps == sorted_steps(raw.items)
      i == FirstIndex(steps, GivenStops)
  IN IF i = 0 THEN "" ELSE clean_text(steps[i].paso.s)

\* C4: in every structure returned, Given has at most 120 characters, When
\* at most 100, each And at most 100 and Then at most 150; a first action
\* text whose cleaned form has 200 characters (or more) yields a Given of
\* exactly 120 characters, and no error is raised for it.
C4_TruncatedFields ==
  /\ (pc = "return" /\ ~ret.raised) =>
        /\ Len(ret.Given) <= 120
        /\ Len(ret.When) <= 100
        /\ \A i \in 1..Len(ret.And) : Len(ret.And[i]) <= 100
        /\ Len(ret.Then) <= 150
  /\ (pc = "return" /\ WellFormedSteps(arg) /\ Len(FirstActionCleaned(arg)) >= 200) =>
        (~ret.raised /\ Len(ret.Given) = 120)

\* A first action text of 200 cleaned characters has been cut to a Given
\* of 120, and a longer validation text to a Then of 150
C4_Witness ==
  /\ pc = "return" /\ WellFormedSteps(arg)
  /\ Len(FirstActionCleaned(arg)) >= 200
  /\ ~ret.raised /\ Len(ret.Given) = 120 /\ Len(ret.Then) = 150

\* every entry has an action text and a validation text that pass
\* _is_valid_step, so the first entry processed decides Given and the
\* last one Then
AllTextsValid(raw) ==
  /\ WellFormedSteps(raw)
  /\ \A i \in 1..Len(raw.items) :
        /\ ValidValue(raw.items[i][2].paso)
        /\ ValidValue(raw.items[i][2].validacion)

AllKeysParse(raw) == \A i \in 1..Len(raw.items) : IsIntLiteral(raw.items[i][1])

\* the entry processed first and the one processed last: by numeric key
\* (ties in insertion order) when all keys parse, by insertion otherwise
FirstProcessed(raw) ==
  LET n == Len(raw.items)
      i == CHOOSE i \in 1..n : \A j \in 1..n :
             \/ j = i
             \/ IntValue(raw.items[i][1]) < IntValue(raw.items[j][1])
             \/ (IntValue(raw.items[i][1]) = IntValue(raw.items[j][1]) /\ i < j)
  IN IF AllKeysParse(raw) THEN raw.items[i][2] ELSE raw.items[1][2]
LastProcessed(raw) ==
  LET n == Len(raw.items)
      i == CHOOSE i \in 1..n : \A j \in 1..n :
             \/ j = i
             \/ IntValue(raw.items[i][1]) > IntValue(raw.items[j][1])
             \/ (IntValue(raw.items[i][1]) = IntValue(raw.items[j][1]) /\ i > j)
  IN IF AllKeysParse(raw) THEN raw.items[i][2] ELSE raw.items[n][2]

\* C17: when every key of the step mapping parses as an integer the
\* entries are processed in ascending numeric key order whatever the
\* insertion order ('10' after '2'); when a key does not parse they are
\* processed in insertion order; no error is raised.  (Seen on mappings
\* whose texts are all valid: Given comes from the entry processed first,
\* Then from the one processed last.)
C17_NumericKeyOrder ==
  (pc = "return" /\ AllTextsValid(arg) /\ arg.items # <<>>) =>
     /\ ~ret.raised
     /\ ret.Given = Prefix(GivenLeadIn \o clean_text(FirstProcessed(arg).paso.s), GivenLimit)
     /\ ret.Then = Prefix(clean_text(LastProcessed(arg).validacion.s), ThenLimit)

\* the cleaned action texts of the entries in processing order ('' for an
\* entry that has none)
CleanedActions(raw) ==
  Bind(sorted_steps(raw.items),
       LAMBDA steps : [i \in 1..Len(steps) |-> clean_text(steps[i].paso.s)])

\* C18: Given is 'Iniciar proceso: ' followed by the first non-empty
\* cleaned action text of the ordered entries, so that the text after the
\* lead-in is never empty; when no entry has such a text Given is exactly
\* 'Iniciar flujo'.
C18_GivenFirstNonEmptyCleaned ==
  (pc = "return" /\ WellFormedSteps(arg)) =>
     \E texts \in {CleanedActions(arg)} :
        LET hits == {i \in 1..Len(texts) : texts[i] # ""}
        IN /\ ~ret.raised
           /\ ret.Given = (IF hits = {} THEN "Iniciar flujo"
                           ELSE Prefix("Iniciar proceso: " \o texts[SetMin(hits)], 120))
           /\ ret.Given # "Iniciar proceso: "

\* the phrases the summarizer returns for the cleaned action texts of the
\* entries strictly between the first and the last one processed
MiddlePhrases(raw) ==
  Bind(CleanedActions(raw),
       LAMBDA texts : create_action_summary(SubSeq(texts, 2, Len(texts) - 1)))

WhenAndFromMiddle(raw, result) ==
  \E phrases \in {MiddlePhrases(raw)} :
     /\ ~result.raised
     /\ IF phrases = <<>>
        THEN result.When = "Ejecutar secuencia de pasos" /\ result.And = <<>>
        ELSE result.When = Head(phrases) /\ result.And = Tail(phrases)

\* C19 (as claimed): When and And depend only on the action texts of the
\* entries strictly between the first and the last one: When is the first
\* phrase the summarizer returns for them, And the others in order; when
\* it returns nothing, as for every record of at most two steps, When is
\* 'Ejecutar secuencia de pasos' and And is empty.
C19_WhenAndFromMiddle ==
  (pc = "return" /\ WellFormedSteps(arg)) => WhenAndFromMiddle(arg, ret)

\* C19 (amended): the same for every record of at least one step; for the
\* record without steps When is 'Ejecutar proceso' and And is empty.
C19_WhenAndFromMiddleNonEmpty ==
  (pc = "return" /\ WellFormedSteps(arg)) =>
     IF arg.items = <<>>
     THEN ~ret.raised /\ ret.When = "Ejecutar proceso" /\ ret.And = <<>>
     ELSE WhenAndFromMiddle(arg, ret)

\* A record whose first and last action texts match the capture and the
\* interact pattern has returned with When and And from the two entries
\* in between alone
C19_Witness ==
  /\ pc = "return" /\ WellFormedSteps(arg)
  /\ Len(arg.items) = 4
  /\ SearchAny(CleanedActions(arg)[1], ActionMap[2].pattern)
  /\ SearchAny(CleanedActions(arg)[4], ActionMap[1].pattern)
  /\ ret.When = ActionMap[3].action
  /\ ret.And = <<ActionMap[4].action>>

JsonFiles == {f \in dir : EndsWithJson(f.name)}

\* text starts with s
HasPrefix(text, s) == SubSeq(text, 1, Len(s)) = s

\* Once the example record has been converted, its feature file starts
\* with the Feature name 'Altas' and the given Scenario name, and its last
\* line is a Then step containing 'Se muestra confirmacion'
ExampleRenders(scenario) ==
  \A f \in dir :
    (f.name = ExampleName /\ pc # "start" /\ f.name \notin pending) =>
       \E o \in outputs :
          /\ o[1] = "Alta_Cliente.feature"
          /\ HasPrefix(o[2], "Feature: Altas\n\n  Scenario: " \o scenario \o "\n    Given ")
          /\ \E i \in Occurrences(o[2], "\n    Then ") :
               \E j \in Occurrences(o[2], "Se muestra confirmacion") :
                  /\ j > i
                  /\ Occurrences(SubSeq(o[2], i + 1, Len(o[2])), "\n") = {}

\* C5 (as claimed): converting the record with Modulo 'Reg-Altas', Titulo
\* 'Flujo_Alta_Cliente' and the steps (Capturar nombre / '') and (Clic en
\* Guardar / '?Se muestra confirmacion') renders a feature whose Feature
\* name is 'Altas', whose Scenario name is 'Alta Cliente' and whose Then
\* step contains 'Se muestra confirmacion'.
C5_EndToEndExample == ExampleRenders("Alta Cliente")

\* C5 (amended): the same record renders a feature whose Feature name is
\* 'Altas', whose Scenario name is 'Cliente' (the last '_'-delimited
\* segment of the title) and whose Then step contains 'Se muestra
\* confirmacion'.
C5_EndToEndLastSegment == ExampleRenders("Cliente")

\* The batch has ended and the example's feature file is there
C5_Witness ==
  /\ pc = "done"
  /\ \E f \in dir : f.name = ExampleName
  /\ \E o \in outputs : o[1] = "Alta_Cliente.feature" /\ Len(o[2]) > 0

\* how often the loop started on the file
Attempts(name) ==
  Cardinality({i \in 1..Len(log) : log[i] = [msg |-> "Procesando archivo", name |-> name]})
Generated(name) ==
  \E i \in 1..Len(log) : log[i] = [msg |-> "Archivo generado", name |-> name]

\* C6: a failure while reading, parsing, synthesizing or writing one
\* record never ends the batch: the loop is never left by an error, no
\* file is attempted twice, and when convert() has ended every '.json'
\* file has been attempted exactly once and every record that does not
\* itself fail had its feature file written.
C6_FailuresDoNotAbort ==
  /\ pc \in {"start", "loop", "done"}
  /\ \A f \in dir : Attempts(f.name) <= 1
  /\ pc = "done" =>
        \A f \in dir :
           /\ Attempts(f.name) = (IF EndsWithJson(f.name) THEN 1 ELSE 0)
           /\ (EndsWithJson(f.name) /\ convert_record(f).ok) =>
                 (Generated(f.name) /\ \E o \in outputs : o[1] = OutputPath(f.name))

\* The batch has ended after a record failed and a later one was written
C6_Witness ==
  /\ pc = "done"
  /\ \E i, j \in 1..Len(log) :
        /\ i < j
        /\ log[i].msg = "Error procesando"
        /\ log[j].msg = "Archivo generado"
  /\ \E i, j \in 1..Len(log) :
        /\ i < j
        /\ log[i].msg = "Archivo generado"
        /\ log[j].msg = "Error procesando"

\* C7: convert() writes one feature file per input record: when every
\* record of the batch succeeds, no two input filenames are written to the
\* same output path, and there are as many feature files as records.
C7_OneFilePerRecord ==
  (pc = "done" /\ \A f \in JsonFiles : convert_record(f).ok) =>
     /\ \A f, g \in JsonFiles : f.name # g.name => OutputPath(f.name) # OutputPath(g.name)
     /\ Cardinality(outputs) = Cardinality(JsonFiles)

\* the output directory after the files are converted in ascending order
\* of their names
RECURSIVE InNameOrder(_, _)
InNameOrder(files, fs) ==
  IF files = {} THEN fs
  ELSE LET f == CHOOSE h \in files : \A g \in files : g = h \/ StrLess(h.name, g.name)
       IN InNameOrder(files \ {f}, OutputsAfter(fs, f, convert_record(f)))

\* C8: the order in which the records are processed is irrelevant: when
\* convert() has ended, the output files and their contents are those of
\* any other order (here: of the ascending order of the names).
C8_OrderIrrelevant == pc = "done" => outputs = InNameOrder(JsonFiles, {})

\* ------------------------------------------------------------------------
\* Properties of _create_action_summary (SpecSummary)
\* ------------------------------------------------------------------------
\* C9: for every sequence of steps, also one that matches all four
\* categories, _create_action_summary returns at most 3 phrases, none of
\* them twice.
C9_AtMostThreeDistinct == pc = "return" => (Len(ret) <= 3 /\ Distinct(ret))

\* Steps of all four categories have been summarised in three phrases,
\* one category having come twice
C9_Witness ==
  /\ pc = "return"
  /\ \A k \in 1..Len(ActionMap) : \E i \in 1..Len(arg) : SearchAny(arg[i], ActionMap[k].pattern)
  /\ \E i, j \in 1..Len(arg) : i # j /\ arg[i] = arg[j]
  /\ Len(ret) = 3

\* the first pattern, in the order of action_map, that matches step; 0
\* when none does
FirstMatch(step) ==
  LET hits == {k \in 1..Len(ActionMap) : SearchAny(step, ActionMap[k].pattern)}
  IN IF hits = {} THEN 0 ELSE SetMin(hits)

\* the phrases collected when each step is decided by its first matching
\* pattern alone
RECURSIVE FirstMatchPhrases(_)
FirstMatchPhrases(steps) ==
  IF steps = <<>> THEN <<>>
  ELSE LET before == FirstMatchPhrases(SubSeq(steps, 1, Len(steps) - 1))
           k == FirstMatch(steps[Len(steps)])
       IN IF k = 0 \/ InSeq(ActionMap[k].action, before) THEN before
          ELSE Append(before, ActionMap[k].action)

\* C16: each step is decided by the first pattern (interact, capture,
\* validate, enable-section) that matches it: it adds that pattern's
\* phrase unless it is already collected, and never the phrase of a later
\* pattern that matches it too.
C16_FirstMatchDecides ==
  pc = "return" => ret = SubSeq(FirstMatchPhrases(arg), 1, Min(3, Len(FirstMatchPhrases(arg))))

StemOf(name) == SubSeq(name, 1, Len(name) - Len(FeatureExt))

EndsWithFeature(name) ==
  Len(name) >= Len(FeatureExt) /\ SubSeq(name, Len(StemOf(name)) + 1, Len(name)) = FeatureExt

\* only ASCII letters, digits and single underscores, no underscore first
\* or last
CleanStem(stem) ==
  /\ \A i \in 1..Len(stem) :
        CharAt(stem, i) \in CharsOf(LowerAscii) \cup CharsOf(UpperAscii) \cup DigitSet \cup {"_"}
  /\ Occurrences(stem, "__") = {}
  /\ stem # "" => (CharAt(stem, 1) # "_" /\ CharAt(stem, Len(stem)) # "_")

\* C11: for every file name _normalize_filename returns a name ending in
\* '.feature' whose stem holds only ASCII letters, digits and single
\* underscores, none of them first or last; 'Módulo-Prueba #1.json' gives
\* 'Modulo_Prueba_1.feature'.
C11_CleanFeatureName ==
  pc \in {"return", "again"} =>
     /\ EndsWithFeature(ret)
     /\ CleanStem(StemOf(ret))
     /\ arg = DocumentedName => ret = "Modulo_Prueba_1.feature"

\* The documented name has been normalised
C11_Witness ==
  pc = "return" /\ arg = DocumentedName /\ ret = "Modulo_Prueba_1.feature"

\* C12: normalising is idempotent: the result of _normalize_filename,
\* rebuilt with '.json' in place of '.feature' and normalised again, is
\* returned unchanged.
C12_Idempotent == pc = "again" => ret = log[1]

\* A name the first pass changed (accent folded, characters dropped,
\* separators collapsed) has been normalised a second time
C12_Witness ==
  /\ pc = "again"
  /\ log[1] = "Nandu_2.feature"
  /\ arg = "Nandu_2.json"
  /\ ret = "Nandu_2.feature"

\* ------------------------------------------------------------------------
\* Properties of _generate_feature (SpecRender)
\* ------------------------------------------------------------------------
\* text.split('\n')
LinesOf(text) ==
  LET brk == Occurrences(text, "\n") \cup {Len(text) + 1}
      kth(k) == CHOOSE p \in brk : Cardinality({q \in brk : q < p}) = k - 1
  IN [k \in 1..Cardinality(brk) |->
        SubSeq(text, IF k = 1 THEN 1 ELSE kth(k - 1) + 1, kth(k) - 1)]

NotSpace(c) == ~IsSpace(c)

\* line is the keyword followed by the words of text, on one line
StepLine(line, keyword, text) ==
  /\ HasPrefix(line, keyword)
  /\ KeepChars(SubSeq(line, Len(keyword) + 1, Len(line)), NotSpace) = KeepChars(text, NotSpace)

\* C13: _generate_feature emits the line 'Feature: <module>', an empty
\* line, '  Scenario: <scenario>', one '    Given ' line, one '    When '
\* line, one '    And ' line per And entry in the order of the list and
\* one '    Then ' line last; for a structure _process_steps returned
\* every step is on a single line, so the text has 6 + |And| lines.
C13_OutputGrammar ==
  (pc = "return" /\ ~arg.steps.raised) =>
     /\ ~ret.raised
     /\ LET lines == LinesOf(ret.text)
            n == Len(arg.steps.And)
        IN /\ Len(lines) = 6 + n
           /\ HasPrefix(lines[1], "Feature: ")
           /\ lines[2] = ""
           /\ HasPrefix(lines[3], "  Scenario: ")
           /\ StepLine(lines[4], "    Given ", arg.steps.Given)
           /\ StepLine(lines[5], "    When ", arg.steps.When)
           /\ \A i \in 1..n : StepLine(lines[5 + i], "    And ", arg.steps.And[i])
           /\ StepLine(lines[6 + n], "    Then ", arg.steps.Then)

\* A structure with a line break inside Given, two And entries and a Then
\* of 150 characters has been rendered in eight lines
C13_Witness ==
  /\ pc = "return" /\ ~arg.steps.raised /\ ~ret.raised
  /\ Occurrences(arg.steps.Given, "\n") # {}
  /\ Len(arg.steps.And) = 2
  /\ Len(arg.steps.Then) = 150
  /\ Len(LinesOf(ret.text)) = 8

\* what follows the last sep of s (all of s when it holds none)
AfterLast(s, sep) ==
  LET k == CHOOSE k \in 0..Len(s) :
             /\ k = 0 \/ CharAt(s, k) = sep
             /\ \A j \in (k + 1)..Len(s) : CharAt(s, j) # sep
  IN SubSeq(s, k + 1, Len(s))

\* s with every maximal run of characters outside keep replaced by one
\* sep: a character of keep stands for itself, the last character of a
\* run for sep, the others for nothing
CollapseRuns(s, keep, sep) ==
  JoinPieces(Len(s), LAMBDA i :
    IF CharAt(s, i) \in keep THEN CharAt(s, i)
    ELSE IF i = Len(s) \/ CharAt(s, i + 1) \in keep THEN sep
    ELSE "")

\* s without the underscores it starts and ends with
TrimUnderscores(s) ==
  LET inner == {i \in 1..Len(s) : CharAt(s, i) # "_"}
  IN IF inner = {} THEN "" ELSE SubSeq(s, SetMin(inner), SetMax(inner))

\* name is `spaced` in title case, cut to 70 characters
TitleCasedCut(name, spaced) ==
  /\ Len(name) = Min(Len(spaced), 70)
  /\ \A i \in 1..Len(name) :
        CharAt(name, i) =
          (IF ~IsLetter(CharAt(spaced, i)) THEN CharAt(spaced, i)
           ELSE IF i > 1 /\ IsLetter(CharAt(spaced, i - 1)) THEN ToLower(CharAt(spaced, i))
           ELSE ToUpper(CharAt(spaced, i)))

\* C14: the Feature name is the last '-'-delimited segment of the module
\* with every run of non-word characters replaced by one underscore and
\* the underscores at its ends removed; the Scenario name is the last
\* '_'-delimited segment of the title with every run of non-word or
\* underscore characters replaced by one space, in title case, cut to 70
\* characters; neither holds a line break.
C14_FeatureAndScenarioNames ==
  (pc = "return" /\ ~ret.raised) =>
     LET lines == LinesOf(ret.text)
         feature == SubSeq(lines[1], Len("Feature: ") + 1, Len(lines[1]))
         scenario == SubSeq(lines[3], Len("  Scenario: ") + 1, Len(lines[3]))
     IN /\ HasPrefix(lines[1], "Feature: ")
        /\ HasPrefix(lines[3], "  Scenario: ")
        /\ HasPrefix(lines[4], "    Given ")
        /\ feature = TrimUnderscores(CollapseRuns(AfterLast(arg.module.s, "-"), WordSet, "_"))
        /\ TitleCasedCut(scenario, CollapseRuns(AfterLast(arg.title.s, "_"), WordSet \ {"_"}, " "))

\* A module with a line break after its last hyphen and a title with a
\* line break and mixed case after its last underscore have been rendered
C14_Witness ==
  /\ pc = "return" /\ ~ret.raised
  /\ arg.module.s = "Caja - Retiros\nNuevos"
  /\ arg.title.s = "Flujo_alta\nDE   cliente-2a"
  /\ HasPrefix(ret.text, "Feature: Retiros_Nuevos\n\n  Scenario: Alta De Cliente 2A\n    Given ")

\* ------------------------------------------------------------------------
\* Properties of convert() on records that lack keys (SpecPartial)
\* ------------------------------------------------------------------------
Reported(name) ==
  \E i \in 1..Len(log) : log[i] = [msg |-> "Error procesando", name |-> name]

HasSuffix(text, s) ==
  Len(text) >= Len(s) /\ SubSeq(text, Len(text) - Len(s) + 1, Len(text)) = s

\* C15: a record that parses as a mapping and lacks Modulo, Titulo or
\* CasoPrueba is converted without an error being reported and its feature
\* file is written: a missing module stands as 'Modulo_Principal', a
\* missing title as 'Escenario_Principal' (rendered 'Principal', its last
\* '_' segment), a missing CasoPrueba as the empty mapping, which gives
\* the fixed default scenario.
C15_MissingKeysDefault ==
  \A f \in dir :
    (pc # "start" /\ EndsWithJson(f.name) /\ f.name \notin pending) =>
       /\ Generated(f.name)
       /\ ~Reported(f.name)
       /\ \E o \in outputs :
             /\ o[1] = OutputPath(f.name)
             /\ f.data.Modulo = JMissing => HasPrefix(o[2], "Feature: Modulo_Principal\n\n  Scenario: ")
             /\ f.data.Titulo = JMissing =>
                   LinesOf(o[2])[3] = "  Scenario: Principal"
             /\ f.data.CasoPrueba.t = "missing" =>
                   HasSuffix(o[2], "\n    Given Iniciar flujo\n    When Ejecutar proceso"
                                     \o "\n    Then Proceso finalizado exitosamente")

\* The batch has ended with the record lacking all three keys and a
\* record lacking only its title both written
C15_Witness ==
  /\ pc = "done"
  /\ \E o \in outputs :
        /\ o[1] = "r.feature"
        /\ o[2] = "Feature: Modulo_Principal\n\n  Scenario: Principal\n    Given Iniciar flujo"
                    \o "\n    When Ejecutar proceso\n    Then Proceso finalizado exitosamente"
  /\ \E o \in outputs :
        /\ o[1] = "rMC.feature"
        /\ HasPrefix(o[2], "Feature: Altas\n\n  Scenario: Principal\n    Given Iniciar proceso: ")

\* ------------------------------------------------------------------------
\* The validity decisions of _process_steps (SpecSteps)
\* ------------------------------------------------------------------------
\* the predicate the specification describes: the text after cleaning has
\* more than 2 characters and is not made up only of digits and non-word
\* characters
CleanedValid(text) ==
  \E cleaned \in {clean_text(text)} :
     Len(cleaned) > 2 /\ ~OnlyDigitsNonWord(cleaned)

\* the string fields of the entries of a step mapping
TextsOf(raw) ==
  {raw.items[i][2].paso.s : i \in {j \in 1..Len(raw.items) : raw.items[j][2].paso.t = "str"}}
  \cup {raw.items[i][2].validacion.s :
          i \in {j \in 1..Len(raw.items) : raw.items[j][2].validacion.t = "str"}}

\* C21: _is_valid_step is true exactly when the text after cleaning has
\* more than 2 characters and is not made up only of digits and non-word
\* characters; the decisions taken during synthesis judge the cleaned
\* text, so a validation text that becomes Then has a cleaned form longer
\* than 2 characters.
C21_ValidityJudgesCleaned ==
  (pc = "return" /\ WellFormedSteps(arg)) =>
     /\ \A text \in TextsOf(arg) : is_valid_step(text) <=> CleanedValid(text)
     /\ ~ret.raised
     /\ ret.Then # "Proceso finalizado exitosamente" => Len(ret.Then) > 2

\* ------------------------------------------------------------------------
\* Properties of the AI variant's _process_steps (SpecAi)
\* ------------------------------------------------------------------------
\* no entry was classified as When
NoWhenLabel(call) == \A i \in 1..Len(call.labels) : call.labels[i] # "When"

\* no action text of the entries strictly between the first and the last
\* one matches a pattern of the action map, so the summarizer yields
\* nothing for them
NothingToSummarize(raw) ==
  \A i \in 2..(Len(raw.items) - 1) :
     \A k \in 1..Len(ActionMap) :
        ~SearchAny(clean_text(raw.items[i][2].paso.s), ActionMap[k].pattern)

\* C22: in the AI variant, whatever the classifier answers for a non-empty
\* step sequence, when no step is classified as When and the summarizer
\* yields nothing for the intermediate steps, a structure is returned
\* whose When is made from the fallback phrase 'Ejecutar secuencia de
\* pasos', and no error is raised.
C22_AiWhenFallsBack ==
  (/\ pc = "return"
   /\ WellFormedSteps(arg.raw_steps) /\ arg.raw_steps.items # <<>>
   /\ NoWhenLabel(arg) /\ NothingToSummarize(arg.raw_steps)) =>
     /\ ~ret.raised
     /\ ret.When = Prefix(ai_enhance_step("Ejecutar secuencia de pasos",
                                          arg.generated.When), 100)

\* ------------------------------------------------------------------------
\* Properties of the ValueEdgeExtractor session (SpecExtractor)
\* ------------------------------------------------------------------------
\* the exchange is a sign-in answered with status 200 and both cookies
SignedIn(exchange) ==
  /\ exchange[1].path = "authentication/sign_in"
  /\ ~exchange[2].error /\ exchange[2].status = 200
  /\ {"OCTANE_USER", "LWSSO_COOKIE_KEY"} \subseteq exchange[2].cookies

\* some exchange of the history is such a sign-in
SignedInBefore(history) == \E i \in 1..Len(history) : SignedIn(history[i])

\* C23: in any sequence of login(), get_test_case() and
\* get_all_test_cases() calls, login() returns True exactly for a response
\* with status 200 and both cookies; a fetch sends an HTTP request only if
\* some earlier login() returned True, and before that it returns None
\* without contacting the server; once a login() has returned True every
\* fetch contacts the server, failed logins in between notwithstanding.
C23_SessionGuardsFetches ==
  [][\A call \in {arg'[Len(arg')]} :
        IF call[1] = "login"
        THEN /\ Len(net') = Len(net) + 1
             /\ ret' = [t |-> "bool", b |-> SignedIn(net'[Len(net')])]
        ELSE IF SignedInBefore(net)
        THEN /\ Len(net') > Len(net)
             /\ \A i \in (Len(net) + 1)..Len(net') : net'[i][1].method = "GET"
        ELSE net' = net /\ ret' = [t |-> "None"]]_vars

\* A login has returned True, a later one has failed, and the fetch after
\* them has still brought a test case from the server
C23_Witness ==
  /\ Len(arg) = 3 /\ Len(net) = 4
  /\ arg[1][1] = "login" /\ SignedIn(net[1])
  /\ arg[2][1] = "login" /\ ~SignedIn(net[2])
  /\ arg[3][1] = "get_test_case"
  /\ ret.t = "dict"

\* ------------------------------------------------------------------------
\* Properties of the CasoPrueba built from a script (SpecScript)
\* ------------------------------------------------------------------------
\* the non-empty lines of a script, cleaned, in order
ScriptLines(script) ==
  LET pieces == SplitOn(script, "\n- ")
  IN SelectSeq([i \in 1..Len(pieces) |-> [text |-> ve_clean_text(pieces[i])]],
               LAMBDA l : l.text # "")

IsValidationLine(l) == SubSeq(l.text, 1, 1) = "?"

\* the characters of text that belong to no '- '
DashFree(text) ==
  LET at == Occurrences(text, "- ")
  IN JoinPieces(Len(text), LAMBDA i :
       IF i \in at \/ (i - 1) \in at THEN "" ELSE CharAt(text, i))

\* the steps a sequence of lines makes: step k ends at the k-th
\* validation line and holds the lines after the one before it; action
\* lines after the last validation line make one more step
StepsOfLines(lines) ==
  LET vals == {i \in 1..Len(lines) : IsValidationLine(lines[i])}
      open == lines # <<>> /\ ~IsValidationLine(lines[Len(lines)])
      n == Cardinality(vals) + (IF open THEN 1 ELSE 0)
      closing(k) == IF k = 0 THEN 0
                    ELSE IF k > Cardinality(vals) THEN Len(lines) + 1
                    ELSE CHOOSE i \in vals : Cardinality({j \in vals : j < i}) = k - 1
  IN [k \in 1..n |->
        LET actions == {i \in 1..Len(lines) : closing(k - 1) < i /\ i < closing(k)}
        IN [validacion |-> IF k > Cardinality(vals) THEN "" ELSE lines[closing(k)].text,
            paso |-> IF actions = {} THEN ""
                     ELSE lines[CHOOSE i \in actions : \A j \in actions : j <= i].text]]

\* C24: get_test_case builds CasoPrueba from the script lines so that its
\* keys are exactly '1'..'n' in order, each parseable as the integer it
\* stands for, and every entry holds both a paso and a validacion string;
\* a non-empty line starting with '?' is the validacion of the step it
\* closes, the last other non-empty line of a step (its '- ' removed) is
\* its paso, and each is '' when the step has no such line; the number of
\* steps is the number of validation lines, plus one when action text
\* follows the last validation line.
C24_ContiguousSteps ==
  pc = "return" =>
    \E steps \in {StepsOfLines(ScriptLines(arg))} :
       /\ ret.t = "dict"
       /\ Len(ret.items) = Len(steps)
       /\ \A k \in 1..Len(steps) :
             /\ ret.items[k][1] = ToDecimal(k)
             /\ IsIntLiteral(ret.items[k][1]) /\ IntValue(ret.items[k][1]) = k
             /\ ret.items[k][2].t = "dict"
             /\ ret.items[k][2].validacion = [t |-> "str", s |-> steps[k].validacion, n |-> 0]
             /\ ret.items[k][2].paso = [t |-> "str", s |-> DashFree(steps[k].paso), n |-> 0]

\* A script of twelve steps has given the keys '1' to '12', the last step
\* made of the action text that follows the last validation line
C24_Witness ==
  /\ pc = "return"
  /\ Len(ret.items) = 12
  /\ ret.items[10][1] = "10" /\ ret.items[12][1] = "12"
  /\ ret.items[11][2].validacion.s = "?ok"
  /\ ret.items[12][2].paso.s = "Fin" /\ ret.items[12][2].validacion.s = ""

\* ------------------------------------------------------------------------
\* Properties of get_all_issues (SpecIssues)
\* ------------------------------------------------------------------------
\* the server reports the same number as total on every page
FixedTotal == ~arg.grows /\ arg.total.t = "num"

\* every page so far came back with status 200 and well-formed issues
EveryPageOk ==
  \A i \in 1..Len(net) :
    ~net[i][2].error /\ net[i][2].status = 200 /\ net[i][2].wellformed

\* the issue keys of the pages, in page order
RECURSIVE KeysOfPages(_)
KeysOfPages(history) ==
  IF history = <<>> THEN <<>>
  ELSE KeysOfPages(SubSeq(history, 1, Len(history) - 1)) \o history[Len(history)][2].issues

\* the i-th request asks for the offset 100 * (i - 1), so no offset is
\* asked for twice
OffsetsInOrder ==
  /\ \A i \in 1..Len(net) : net[i][1].startAt = 100 * (i - 1) /\ net[i][1].maxResults = 100
  /\ \A i, j \in 1..Len(net) : i # j => net[i][1].startAt # net[j][1].startAt

\* the call has ended exactly at the first offset with T <= startAt + 100
StopsAtFirstCoveringOffset ==
  \A i \in 1..Len(net) :
    (arg.total.n <= net[i][1].startAt + 100) <=> (i = Len(net) /\ pc = "done")

\* C25: against a server that answers every page with status 200 and
\* reports a fixed total T, get_all_issues terminates; it requests the
\* offsets 0, 100, 200, ... each once, stops at the first offset with
\* T <= startAt + 100, and returns the issue keys of all the pages
\* concatenated in page order.
C25_PagesUntilTotal ==
  /\ [](pc # "call" /\ FixedTotal /\ EveryPageOk =>
          /\ OffsetsInOrder
          /\ StopsAtFirstCoveringOffset
          /\ (pc = "done" => ret = PyList(KeysOfPages(net))))
  /\ ((pc = "call" /\ FixedTotal) ~> (pc = "done"))

\* four pages were needed for a total of 400, and their keys came back in
\* page order
C25_Witness ==
  /\ pc = "done"
  /\ FixedTotal /\ arg.total.n = 400
  /\ EveryPageOk
  /\ Len(net) = 4
  /\ ret = PyList(<<"GIA-1", "GIA-2", "GIA-101", "GIA-102",
                    "GIA-201", "GIA-202", "GIA-301", "GIA-302">>)

====
